---- MODULE Spec2Model ----
(***************************************************************************)
(* nokvault: container format, key derivation, authenticated encryption,   *)
(* directory encryption/decryption and key rotation, modelled at the byte  *)
(* level.  A byte string is a sequence over 0..255, a Go nil pointer is    *)
(* the empty sequence <<>> and a non-nil pointer to v is <<v>>, a Go error *)
(* is a string ("" is the nil error).                                      *)
(***************************************************************************)
EXTENDS Integers, Sequences, FiniteSets, TLC

(***************************************************************************)
(* Bounds of the model.                                                    *)
(***************************************************************************)
\* number of distinct values crypto/rand can return for a salt
NumSalts == 2
\* number of distinct values crypto/rand can return for a nonce
NumNonces == 2
\* number of times the header scenario may damage a buffer
MaxDamage == 2

(***************************************************************************)
(* Byte strings and little-endian integers.                                *)
(***************************************************************************)
Nil == <<>>

Ptr(v) == <<v>>

Deref(p) == p[1]

Rep(b, n) == [i \in 1..n |-> b]

Drop(s, n) == IF n >= Len(s) THEN <<>> ELSE SubSeq(s, n + 1, Len(s))

Take(s, n) == IF n >= Len(s) THEN s ELSE SubSeq(s, 1, n)

HasPrefix(s, p) == Len(s) >= Len(p) /\ SubSeq(s, 1, Len(p)) = p

\* sum of the bytes s[lo..hi], by halving (long strings)
RECURSIVE SumRange(_, _, _)
SumRange(s, lo, hi) ==
    IF lo > hi THEN 0
    ELSE IF lo = hi THEN s[lo]
    ELSE LET mid == (lo + hi) \div 2
         IN  SumRange(s, lo, mid) + SumRange(s, mid + 1, hi)

SumBytes(s) == SumRange(s, 1, Len(s))

\* the largest integer of the model; a decoded field that does not fit is
\* clamped to it (it is then larger than every file of the model)
Huge == 2000 * 1000000

\* encoding/binary LittleEndian: n (0 <= n < 2^31) on w bytes
LE(n, w) ==
    [i \in 1..w |->
        IF i = 1 THEN n % 256
        ELSE IF i = 2 THEN (n \div 256) % 256
        ELSE IF i = 3 THEN (n \div 65536) % 256
        ELSE IF i = 4 THEN (n \div 16777216) % 256
        ELSE 0]

\* encoding/binary LittleEndian: the unsigned integer held by the bytes bs
FromLE(bs) ==
    IF \E i \in 1..Len(bs) : bs[i] # 0 /\ (i > 4 \/ (i = 4 /\ bs[i] >= 64))
    THEN Huge
    ELSE SumRange([i \in 1..Len(bs) |->
                      IF i = 1 THEN bs[i]
                      ELSE IF i = 2 THEN bs[i] * 256
                      ELSE IF i = 3 THEN bs[i] * 65536
                      ELSE IF i = 4 THEN bs[i] * 16777216
                      ELSE 0], 1, Len(bs))

(***************************************************************************)
(* File names.  A name is a byte string; a path is a sequence of names.    *)
(***************************************************************************)
Dot == <<46>>

Slash == <<47>>

\* ".nokvault"
NokvaultExt == <<46, 110, 111, 107, 118, 97, 117, 108, 116>>

\* ".tmp"
TmpExt == <<46, 116, 109, 112>>

\* path/filepath.Ext of a name: the suffix from the last dot, "" without one
RECURSIVE LastDot(_, _)
LastDot(name, i) ==
    IF i = 0 THEN 0
    ELSE IF <<name[i]>> = Dot THEN i
    ELSE LastDot(name, i - 1)

Ext(name) ==
    LET d == LastDot(name, Len(name))
    IN  IF d = 0 THEN <<>> ELSE SubSeq(name, d, Len(name))

(***************************************************************************)
(* Container format (FileHandler).                                         *)
(***************************************************************************)
\* "NOKVAULT"
NokvaultMagic == <<78, 79, 75, 86, 65, 85, 76, 84>>

CurrentVersion == 1

SaltLength == 16

\* a NokvaultHeader whose DataOffset is a uint32
HeaderFieldsNarrowOffset ==
    << [name |-> "Magic",        size |-> 8],
       [name |-> "Version",      size |-> 2],
       [name |-> "Salt",         size |-> 16],
       [name |-> "MetadataSize", size |-> 4],
       [name |-> "DataOffset",   size |-> 4] >>

\* the fields of NokvaultHeader in declaration order, with their sizes
HeaderFields ==
    << [name |-> "Magic",        size |-> 8],
       [name |-> "Version",      size |-> 2],
       [name |-> "Salt",         size |-> 16],
       [name |-> "MetadataSize", size |-> 4],
       [name |-> "DataOffset",   size |-> 8] >>

\* encoding/binary.Size(header): a struct is its fields, packed in order
RECURSIVE SizeUpTo(_)
SizeUpTo(k) == IF k = 0 THEN 0 ELSE SizeUpTo(k - 1) + HeaderFields[k].size

HeaderSize == SizeUpTo(Len(HeaderFields))

FieldIndex(f) == CHOOSE k \in 1..Len(HeaderFields) : HeaderFields[k].name = f

\* the bytes of field f in a buffer of at least HeaderSize bytes
Field(buf, f) ==
    LET k == FieldIndex(f)
    IN  SubSeq(buf, SizeUpTo(k - 1) + 1, SizeUpTo(k))

\* encoding/json.Marshal of a FileMetadata: a self-delimiting record
MarshalJSON(m) ==
    <<123>> \o <<Len(m.Name)>> \o m.Name \o LE(m.Size, 4) \o LE(m.Mode, 4)
            \o LE(m.ModTime, 4) \o <<IF m.IsDir THEN 1 ELSE 0>>
            \o <<Len(m.RelativePath)>> \o m.RelativePath \o <<125>>

\* encoding/json.Unmarshal into a FileMetadata
UnmarshalJSON(bs) ==
    LET bad == [err |-> "failed to deserialize metadata", metadata |-> Nil]
    IN  IF Len(bs) < 2 \/ bs[1] # 123 THEN bad
        ELSE LET n == bs[2]
             IN  IF Len(bs) < 2 + n + 14 THEN bad
                 ELSE LET r == bs[2 + n + 14]
                      IN  IF Len(bs) # 2 + n + 14 + r + 1 \/ bs[Len(bs)] # 125
                             \/ bs[2 + n + 13] > 1
                          THEN bad
                          ELSE [err |-> "",
                                metadata |-> Ptr(
                                  [Name |-> SubSeq(bs, 3, 2 + n),
                                   Size |-> FromLE(SubSeq(bs, n + 3, n + 6)),
                                   Mode |-> FromLE(SubSeq(bs, n + 7, n + 10)),
                                   ModTime |-> FromLE(SubSeq(bs, n + 11, n + 14)),
                                   IsDir |-> bs[n + 15] = 1,
                                   RelativePath |-> SubSeq(bs, n + 17, n + 16 + r)])]

\* a WriteHeader whose DataOffset leaves the metadata block out
WriteHeaderOffsetWithoutMetadata(salt, metadata) ==
    IF Len(salt) # 16 THEN [err |-> "salt must be 16 bytes", out |-> <<>>]
    ELSE LET metadataJSON == IF metadata = Nil THEN <<>> ELSE MarshalJSON(Deref(metadata))
             MetadataSize == Len(metadataJSON)
             DataOffset   == HeaderSize
         IN  [err |-> "",
              out |-> NokvaultMagic \o LE(CurrentVersion, 2) \o salt
                      \o LE(MetadataSize, 4) \o LE(DataOffset, 8) \o metadataJSON]

\* WriteHeader: the bytes it hands to the writer, or an error
WriteHeader(salt, metadata) ==
    IF Len(salt) # 16 THEN [err |-> "salt must be 16 bytes", out |-> <<>>]
    ELSE LET metadataJSON == IF metadata = Nil THEN <<>> ELSE MarshalJSON(Deref(metadata))
             MetadataSize == Len(metadataJSON)
             DataOffset   == HeaderSize + MetadataSize
         IN  [err |-> "",
              out |-> NokvaultMagic \o LE(CurrentVersion, 2) \o salt
                      \o LE(MetadataSize, 4) \o LE(DataOffset, 8) \o metadataJSON]

NoHeader == Nil

\* a ReadHeader without the version check
ReadHeaderNoVersionCheck(input) ==
    IF Len(input) < HeaderSize
    THEN [err |-> "failed to read header", header |-> NoHeader]
    ELSE LET header == [Magic        |-> Field(input, "Magic"),
                        Version      |-> FromLE(Field(input, "Version")),
                        Salt         |-> Field(input, "Salt"),
                        MetadataSize |-> FromLE(Field(input, "MetadataSize")),
                        DataOffset   |-> FromLE(Field(input, "DataOffset"))]
         IN  IF header.Magic # NokvaultMagic
             THEN [err |-> "invalid magic number: not a nokvault file", header |-> NoHeader]
             ELSE [err |-> "", header |-> Ptr(header)]

\* ReadHeader: binary.Read of the fixed header, then the magic and version checks
ReadHeader(input) ==
    IF Len(input) < HeaderSize
    THEN [err |-> "failed to read header", header |-> NoHeader]
    ELSE LET header == [Magic        |-> Field(input, "Magic"),
                        Version      |-> FromLE(Field(input, "Version")),
                        Salt         |-> Field(input, "Salt"),
                        MetadataSize |-> FromLE(Field(input, "MetadataSize")),
                        DataOffset   |-> FromLE(Field(input, "DataOffset"))]
         IN  IF header.Magic # NokvaultMagic
             THEN [err |-> "invalid magic number: not a nokvault file", header |-> NoHeader]
             ELSE IF header.Version # CurrentVersion
             THEN [err |-> "unsupported version", header |-> NoHeader]
             ELSE [err |-> "", header |-> Ptr(header)]

\* ReadHeaderWithMetadata: the header, then MetadataSize bytes of metadata
ReadHeaderWithMetadata(input) ==
    LET h == ReadHeader(input)
    IN  IF h.err # "" THEN [err |-> h.err, header |-> NoHeader, metadata |-> Nil]
        ELSE LET header == Deref(h.header)
             IN  IF header.MetadataSize > 0
                 THEN IF Len(input) < HeaderSize + header.MetadataSize
                      THEN [err |-> "failed to read metadata",
                            header |-> NoHeader, metadata |-> Nil]
                      ELSE LET u == UnmarshalJSON(SubSeq(input, HeaderSize + 1,
                                                   HeaderSize + header.MetadataSize))
                           IN  IF u.err # ""
                               THEN [err |-> u.err, header |-> NoHeader, metadata |-> Nil]
                               ELSE [err |-> "", header |-> h.header,
                                     metadata |-> u.metadata]
                 ELSE [err |-> "", header |-> h.header, metadata |-> Nil]

(***************************************************************************)
(* Key derivation (crypto.DeriveKey, crypto.GenerateSalt).                 *)
(***************************************************************************)
KeyLength == 32

\* the values crypto/rand can give a 16-byte salt
Salts == { [i \in 1..SaltLength |-> (s * 37 + i) % 256] : s \in 1..NumSalts }

\* Argon2id stands behind DeriveKey: a deterministic function of password and
\* salt that gives different keys for different (password, salt) pairs
DeriveKey(password, salt) ==
    IF Len(salt) # SaltLength
    THEN [err |-> "invalid salt length", key |-> <<>>]
    ELSE [err |-> "",
          key |-> [i \in 1..KeyLength |->
                     (SumBytes(password) * 17 + Len(password)
                        + salt[((i - 1) % SaltLength) + 1] * 5 + i) % 256]]

\* KeyManager.DeriveKeyFromPasswordAndSalt
DeriveKeyFromPasswordAndSalt(password, salt) == DeriveKey(password, salt)

\* KeyManager.DeriveKeyFromPassword: salt is the value GenerateSalt drew inside it
DeriveKeyFromPassword(password, salt) ==
    LET d == DeriveKey(password, salt)
    IN  IF d.err # "" THEN [err |-> "failed to derive key", key |-> <<>>, salt |-> <<>>]
        ELSE [err |-> "", key |-> d.key, salt |-> salt]

\* a ZeroizeKey that leaves the key as it is
ZeroizeKeyKeep(key) == key

\* utils.ZeroizeKey
ZeroizeKey(key) == Rep(0, Len(key))

(***************************************************************************)
(* Authenticated cipher (crypto.AESGCM).  cipher.AEAD stands behind Seal   *)
(* and Open: Open returns the plaintext exactly when the tag verifies      *)
(* under the key, for the nonce and the body it is given.                  *)
(***************************************************************************)
NonceSize == 12

GCMTagSize == 16

\* the values crypto/rand can give a 12-byte nonce
Nonces == { [i \in 1..NonceSize |-> (n * 59 + i) % 256] : n \in 1..NumNonces }

KeyStream(key, nonce, i) ==
    (key[((i - 1) % KeyLength) + 1] + nonce[((i - 1) % NonceSize) + 1] + i) % 256

TagOf(key, nonce, sum, len) ==
    [i \in 1..GCMTagSize |->
        (key[i] + 3 * key[i + 16] + nonce[((i - 1) % NonceSize) + 1]
           + sum + i * len) % 256]

Tag(key, nonce, body) == TagOf(key, nonce, SumBytes(body), Len(body))

\* aead.Seal(nonce, nonce, plaintext, nil): nonce || body || tag
Seal(key, nonce, plaintext) ==
    LET body == [i \in 1..Len(plaintext) |->
                    (plaintext[i] + KeyStream(key, nonce, i)) % 256]
    IN  nonce \o body \o Tag(key, nonce, body)

\* aead.Open(nil, nonce, ciphertext, nil)
Open(key, nonce, ciphertext) ==
    IF Len(ciphertext) < GCMTagSize
    THEN [err |-> "cipher: message authentication failed", plaintext |-> <<>>]
    ELSE LET n    == Len(ciphertext) - GCMTagSize
             body == SubSeq(ciphertext, 1, n)
             tag  == SubSeq(ciphertext, n + 1, Len(ciphertext))
         IN  IF tag # Tag(key, nonce, body)
             THEN [err |-> "cipher: message authentication failed", plaintext |-> <<>>]
             ELSE [err |-> "",
                   plaintext |-> [i \in 1..n |->
                       (body[i] + 512 - KeyStream(key, nonce, i)) % 256]]

\* NewAESGCM then AESGCM.Encrypt, with the nonce it drew
EncryptData(data, key, nonce) ==
    IF Len(key) # 32
    THEN [err |-> "failed to create AES-GCM cipher", ciphertext |-> <<>>]
    ELSE [err |-> "", ciphertext |-> Seal(key, nonce, data)]

\* NewAESGCM then AESGCM.Decrypt
DecryptData(ciphertext, key) ==
    IF Len(key) # 32
    THEN [err |-> "failed to create AES-GCM cipher", plaintext |-> <<>>]
    ELSE IF Len(ciphertext) < NonceSize + GCMTagSize
    THEN [err |-> "decryption failed: ciphertext too short", plaintext |-> <<>>]
    ELSE LET o == Open(key, SubSeq(ciphertext, 1, NonceSize), Drop(ciphertext, NonceSize))
         IN  IF o.err # "" THEN [err |-> "decryption failed", plaintext |-> <<>>]
             ELSE [err |-> "", plaintext |-> o.plaintext]

(***************************************************************************)
(* Compression (CompressionService).  compress/gzip stands behind it: a    *)
(* 10-byte header that begins 0x1F 0x8B 0x08, the deflated body (stored),  *)
(* and a trailer of checksum and length that the reader verifies.          *)
(***************************************************************************)
GzipHeader == <<31, 139, 8, 0, 0, 0, 0, 0, 0, 255>>

Compress(data) ==
    GzipHeader \o data \o LE(SumBytes(data), 4) \o LE(Len(data), 4)

Decompress(data) ==
    IF Len(data) < 18 \/ SubSeq(data, 1, 3) # <<31, 139, 8>>
    THEN [err |-> "failed to create decompressor", data |-> <<>>]
    ELSE LET body == SubSeq(data, 11, Len(data) - 8)
             crc  == SubSeq(data, Len(data) - 7, Len(data) - 4)
             size == SubSeq(data, Len(data) - 3, Len(data))
         IN  IF crc # LE(SumBytes(body), 4) \/ size # LE(Len(body), 4)
             THEN [err |-> "failed to decompress data", data |-> <<>>]
             ELSE [err |-> "", data |-> body]

\* a ShouldCompress that leaves data of exactly minSize bytes alone
ShouldCompressAboveOnly(data, minSize) ==
    IF Len(data) <= minSize THEN FALSE
    ELSE IF Len(data) >= 2 /\ data[1] = 31 /\ data[2] = 139 THEN FALSE
    ELSE TRUE

\* CompressionService.ShouldCompress
ShouldCompress(data, minSize) ==
    IF Len(data) < minSize THEN FALSE
    ELSE IF Len(data) >= 2 /\ data[1] = 31 /\ data[2] = 139 THEN FALSE
    ELSE TRUE

\* the probe of the decrypt pipelines: decompress when the payload looks
\* compressed and decompression succeeds, else use the payload as it is
MaybeDecompress(plaintext) ==
    IF Len(plaintext) >= 2 /\ plaintext[1] = 31 /\ plaintext[2] = 139
    THEN LET d == Decompress(plaintext)
         IN  IF d.err = "" THEN d.data ELSE plaintext
    ELSE plaintext

(***************************************************************************)
(* The file system: files maps each regular file's path to its bytes, dirs *)
(* is the set of directories, unreadable the files that cannot be opened.  *)
(***************************************************************************)
VARIABLES files, dirs, unreadable, hdr, rot, job, sd, kc, fw, pend

vars == <<files, dirs, unreadable, hdr, rot, job, sd, kc, fw, pend>>

Exists(p) == p \in DOMAIN files \/ p \in dirs

\* path/filepath.Dir, Base, Join and Rel on paths as sequences of names
Dir(p) == SubSeq(p, 1, Len(p) - 1)

Base(p) == p[Len(p)]

Join(dir, rel) == dir \o rel

GetRelativePath(base, target) == Drop(target, Len(base))

\* relPath + ext: the extension goes on the last name
AddExt(p, ext) == [p EXCEPT ![Len(p)] = @ \o ext]

\* relPath[:len(relPath)-len(ext)]: the last name loses Len(ext) bytes
CutExt(p, ext) == [p EXCEPT ![Len(p)] = Take(@, Len(@) - Len(ext))]

Prefixes(p) == { SubSeq(p, 1, k) : k \in 1..Len(p) }

\* os.MkdirAll: an error when a file stands where a directory is needed
EnsureDirectoryErr(fs, path) ==
    IF \E q \in Prefixes(path) : q \in DOMAIN fs THEN "not a directory" ELSE ""

EnsureDirectory(ds, path) == ds \cup Prefixes(path)

\* a file system with file p holding bytes b, and without file p
WithFile(fs, p, b) == [q \in DOMAIN fs \cup {p} |-> IF q = p THEN b ELSE fs[q]]

WithoutFile(fs, p) == [q \in DOMAIN fs \ {p} |-> fs[q]]

\* FileHandler.ReadMetadata: os.Stat of a regular file
\* what os.Stat reports for every file of the model: mode 0644, one mtime
StatInfo == [Mode |-> 420, ModTime |-> 1000]

ReadMetadata(fs, path) ==
    IF path \notin DOMAIN fs THEN [err |-> "failed to stat file", metadata |-> Nil]
    ELSE [err |-> "",
          metadata |-> Ptr([Name |-> Base(path), Size |-> Len(fs[path]),
                            Mode |-> StatInfo.Mode, ModTime |-> StatInfo.ModTime,
                            IsDir |-> FALSE, RelativePath |-> Base(path)])]

\* a reader that skips to the data offset and reads to the end of the file
ReadFromOffset(bytes, offset) == Drop(bytes, offset)

(***************************************************************************)
(* The header scenario: WriteHeader into a buffer, damage to the buffer,   *)
(* ReadHeader and ReadHeaderWithMetadata of the buffer.                    *)
(***************************************************************************)
\* "a.txt", "b.gz", "c.txt", "sub", "in", "enc", "dec", "v.nokvault"
NameA == <<97, 46, 116, 120, 116>>

NameB == <<98, 46, 103, 122>>

NameC == <<99, 46, 116, 120, 116>>

NameSub == <<115, 117, 98>>

\* "INVALID", the buffer of TestFileHandler_ReadHeader_InvalidMagic
InvalidBuf == <<73, 78, 86, 65, 76, 73, 68>>

SampleMetadata ==
    { Nil,
      Ptr([Name |-> NameA, Size |-> 2, Mode |-> StatInfo.Mode, ModTime |-> StatInfo.ModTime,
           IsDir |-> FALSE, RelativePath |-> NameA]),
      Ptr([Name |-> NameC, Size |-> 1024, Mode |-> StatInfo.Mode, ModTime |-> StatInfo.ModTime,
           IsDir |-> FALSE, RelativePath |-> NameSub \o Slash \o NameC]) }

\* a salt of the wrong length, as in TestFileHandler_ReadHeader_InvalidSalt
ShortSalt == Rep(0, 8)

\* bytes that follow the header in a container: the start of a ciphertext
SampleTails == { <<>>, <<9, 8, 7>> }

\* the bytes the scenario may overwrite: magic, version, the low bytes of
\* MetadataSize and DataOffset, the first bytes after the fixed header
DamageAt == (1..10) \cup {27, 31, HeaderSize + 1, HeaderSize + 2}

\* the lengths the scenario may cut a buffer to
TruncateAt == {0, 7, 8, 9, 10, HeaderSize - 1, HeaderSize, HeaderSize + 1}

HdrInit ==
    hdr = [buf |-> InvalidBuf, damage |-> 0, written |-> Nil, read |-> Nil]

HdrWrite(salt, metadata, tail) ==
    /\ hdr.written = Nil
    /\ UNCHANGED <<sd, kc, fw, pend, files, dirs, unreadable, rot, job>>
    /\ LET w == WriteHeader(salt, metadata)
       IN  hdr' = [buf     |-> IF w.err = "" THEN w.out \o tail ELSE <<>>,
                   damage  |-> 0,
                   written |-> Ptr([salt |-> salt, metadata |-> metadata,
                                    err |-> w.err, out |-> w.out]),
                   read    |-> Nil]

HdrDamage(i, b) ==
    /\ UNCHANGED <<sd, kc, fw, pend, files, dirs, unreadable, rot, job>>
    /\ hdr.damage < MaxDamage
    /\ i <= Len(hdr.buf)
    /\ hdr.buf[i] # b
    /\ hdr' = [hdr EXCEPT !.buf = [@ EXCEPT ![i] = b], !.damage = @ + 1, !.read = Nil]

HdrTruncate(n) ==
    /\ UNCHANGED <<sd, kc, fw, pend, files, dirs, unreadable, rot, job>>
    /\ hdr.damage < MaxDamage
    /\ n < Len(hdr.buf)
    /\ hdr' = [hdr EXCEPT !.buf = Take(@, n), !.damage = @ + 1, !.read = Nil]

HdrRead ==
    /\ UNCHANGED <<sd, kc, fw, pend, files, dirs, unreadable, rot, job>>
    /\ hdr.read = Nil
    /\ hdr' = [hdr EXCEPT !.read = Ptr([input |-> hdr.buf,
                                        r  |-> ReadHeader(hdr.buf),
                                        rm |-> ReadHeaderWithMetadata(hdr.buf)])]

HdrNext ==
    \/ \E salt \in Salts \cup {ShortSalt}, metadata \in SampleMetadata,
         tail \in SampleTails : HdrWrite(salt, metadata, tail)
    \/ \E i \in DamageAt, b \in {0, 2} : HdrDamage(i, b)
    \/ \E n \in TruncateAt : HdrTruncate(n)
    \/ HdrRead

(***************************************************************************)
(* Key rotation (runRotateKey), one action per file-system step.           *)
(***************************************************************************)
\* "p1", "p2"
Passwords == { <<112, 49>>, <<112, 50>> }

\* "vault.nokvault" and a path with no file
RotPath == << <<118>> \o NokvaultExt >>

tempPath(inputPath) == AddExt(inputPath, TmpExt)

\* payloads of the container under rotation: empty, "Hi", and gzip("Hi")
RotPlaintexts == { <<>>, <<72, 105>>, Compress(<<72, 105>>) }

\* the container an encrypt pipeline writes: header, metadata, ciphertext
Container(salt, metadata, ciphertext) == WriteHeader(salt, metadata).out \o ciphertext

RotIdle == [pc |-> "idle", plain |-> Nil, truePassword |-> <<>>]

JobIdle == [pc |-> "idle", enc |-> Nil, tampered |-> {}]

\* no SecureDeleteService call, no KeyCache, no FileWatcher and no auto-encrypt
\* callback in the scenario
SdIdle == [pc |-> "idle"]

KcIdle == [pc |-> "idle"]

FwIdle == [pc |-> "idle"]

PendIdle == [pc |-> "idle"]

RestIdle == sd = SdIdle /\ kc = KcIdle /\ fw = FwIdle /\ pend = PendIdle

NoFiles == [q \in {} |-> <<>>]

\* the state after runRotateKey returned err
RotReturn(r, err) ==
    [r EXCEPT !.pc = "done", !.err = err,
              !.oldKey = ZeroizeKey(@), !.newKey = ZeroizeKey(@)]

\* lines 45-131: everything before the temporary file is created
RotateBegin(oldPassword, newPassword, newSalt, innerSalt, nonce) ==
    /\ rot.pc = "idle"
    /\ UNCHANGED <<sd, kc, fw, pend, files, dirs, unreadable, hdr, job>>
    /\ LET r0 == [pc |-> "begin", inputPath |-> RotPath, err |-> "",
                  oldPassword |-> oldPassword, newPassword |-> newPassword,
                  oldKey |-> <<>>, newKey |-> <<>>, newSalt |-> <<>>,
                  metadata |-> Nil, newCiphertext |-> <<>>, plain |-> rot.plain,
                  truePassword |-> rot.truePassword,
                  orig |-> IF RotPath \in DOMAIN files THEN Ptr(files[RotPath]) ELSE Nil]
       IN  IF ~Exists(RotPath) THEN rot' = RotReturn(r0, "FILE_NOT_FOUND")
           ELSE IF RotPath \in unreadable
           THEN rot' = RotReturn(r0, "failed to open input file")
           ELSE
           LET input == files[RotPath]
               h     == ReadHeaderWithMetadata(input)
           IN  IF h.err # "" THEN rot' = RotReturn(r0, "INVALID_FORMAT")
               ELSE
               LET header == Deref(h.header)
                   old    == DeriveKeyFromPasswordAndSalt(oldPassword, header.Salt)
                   r1     == [r0 EXCEPT !.oldKey = old.key, !.metadata = h.metadata]
                   ct     == ReadFromOffset(input, header.DataOffset)
                   d      == DecryptData(ct, old.key)
               IN  IF old.err # "" THEN rot' = RotReturn(r0, old.err)
                   ELSE IF d.err # "" THEN rot' = RotReturn(r1, "DECRYPTION_FAILED")
                   ELSE
                   \* newSalt goes into the header; the key is derived by
                   \* DeriveKeyFromPassword, which draws a salt of its own
                   LET new == DeriveKeyFromPassword(newPassword, innerSalt)
                       r2  == [r1 EXCEPT !.newSalt = newSalt, !.newKey = new.key]
                       e   == EncryptData(d.plaintext, new.key, nonce)
                   IN  IF new.err # "" THEN rot' = RotReturn(r1, new.err)
                       ELSE IF e.err # "" THEN rot' = RotReturn(r2, e.err)
                       ELSE rot' = [r2 EXCEPT !.pc = "create",
                                              !.newCiphertext = e.ciphertext]

\* os.Create(tempPath): creates or truncates the file, or fails
RotateCreateTemp(ok) ==
    /\ rot.pc = "create"
    /\ UNCHANGED <<sd, kc, fw, pend, dirs, unreadable, hdr, job>>
    /\ IF ok
       THEN /\ files' = WithFile(files, tempPath(rot.inputPath), <<>>)
            /\ rot' = [rot EXCEPT !.pc = "header"]
       ELSE /\ UNCHANGED files
            /\ rot' = RotReturn(rot, "failed to create temp file")

\* fileHandler.WriteHeader(outputFile, newSalt, metadata): a failed write may
\* leave the first n bytes in the file
RotateWriteHeader(ok, n) ==
    /\ rot.pc = "header"
    /\ UNCHANGED <<sd, kc, fw, pend, dirs, unreadable, hdr, job>>
    /\ LET w == WriteHeader(rot.newSalt, rot.metadata)
           t == tempPath(rot.inputPath)
       IN  IF ok /\ w.err = ""
           THEN /\ files' = WithFile(files, t, files[t] \o w.out)
                /\ rot' = [rot EXCEPT !.pc = "data"]
           ELSE /\ files' = WithFile(files, t, files[t] \o Take(w.out, n))
                /\ rot' = RotReturn(rot, "failed to write header")

\* a rotation that writes the new ciphertext to the original path
RotateWriteDataToOriginal(ok, n) ==
    /\ rot.pc = "data"
    /\ UNCHANGED <<sd, kc, fw, pend, dirs, unreadable, hdr, job>>
    /\ LET t == rot.inputPath
       IN  IF ok
           THEN /\ files' = WithFile(files, t, files[t] \o rot.newCiphertext)
                /\ rot' = [rot EXCEPT !.pc = "rename"]
           ELSE /\ files' = WithFile(files, t, files[t] \o Take(rot.newCiphertext, n))
                /\ rot' = RotReturn(rot, "failed to write encrypted data")

\* outputFile.Write(newCiphertext), then outputFile.Close()
RotateWriteData(ok, n) ==
    /\ rot.pc = "data"
    /\ UNCHANGED <<sd, kc, fw, pend, dirs, unreadable, hdr, job>>
    /\ LET t == tempPath(rot.inputPath)
       IN  IF ok
           THEN /\ files' = WithFile(files, t, files[t] \o rot.newCiphertext)
                /\ rot' = [rot EXCEPT !.pc = "rename"]
           ELSE /\ files' = WithFile(files, t, files[t] \o Take(rot.newCiphertext, n))
                /\ rot' = RotReturn(rot, "failed to write encrypted data")

\* os.Rename(tempPath, inputPath); on failure os.Remove(tempPath)
RotateRename(ok) ==
    /\ rot.pc = "rename"
    /\ UNCHANGED <<sd, kc, fw, pend, dirs, unreadable, hdr, job>>
    /\ LET t == tempPath(rot.inputPath)
       IN  IF ok
           THEN /\ files' = WithoutFile(WithFile(files, rot.inputPath, files[t]), t)
                /\ rot' = RotReturn(rot, "")
           ELSE /\ files' = WithoutFile(files, t)
                /\ rot' = RotReturn(rot, "failed to replace file")

RotNext ==
    \/ \E oldPassword \in Passwords, newPassword \in Passwords,
         newSalt \in Salts, innerSalt \in Salts, nonce \in Nonces :
           RotateBegin(oldPassword, newPassword, newSalt, innerSalt, nonce)
    \/ \E ok \in BOOLEAN : RotateCreateTemp(ok)
    \/ \E ok \in BOOLEAN, n \in {0, 5} : RotateWriteHeader(ok, n)
    \/ \E ok \in BOOLEAN, n \in {0, 5} : RotateWriteData(ok, n)
    \/ \E ok \in BOOLEAN : RotateRename(ok)

(***************************************************************************)
(* Directory walk (path/filepath.Walk behind FileHandler.WalkDirectory):   *)
(* names of a directory are read when it is visited, in sorted order.      *)
(***************************************************************************)
RECURSIVE LexLessFrom(_, _, _)
LexLessFrom(a, b, i) ==
    IF i > Len(a) THEN i <= Len(b)
    ELSE IF i > Len(b) THEN FALSE
    ELSE IF a[i] # b[i] THEN a[i] < b[i]
    ELSE LexLessFrom(a, b, i + 1)

LexLess(a, b) == LexLessFrom(a, b, 1)

RECURSIVE SortNames(_)
SortNames(S) ==
    IF S = {} THEN <<>>
    ELSE LET m == CHOOSE x \in S : \A y \in S \ {x} : LexLess(x, y)
         IN  <<m>> \o SortNames(S \ {m})

readDirNames(fs, ds, path) ==
    SortNames({ Base(q) : q \in { r \in DOMAIN fs \cup ds :
                                    Len(r) = Len(path) + 1 /\ Dir(r) = path } })

\* the paths Walk still has to visit once directory path has been entered
ChildPaths(fs, ds, path) ==
    LET names == readDirNames(fs, ds, path)
    IN  [i \in 1..Len(names) |-> Join(path, <<names[i]>>)]

\* the regular files under root
FilesUnder(fs, root) == { q \in DOMAIN fs : HasPrefix(q, root) /\ q # root }

\* FileHandler.CountFiles: a walk that counts the entries that are no directory
CountFiles(fs, ds, root) ==
    IF ~(root \in DOMAIN fs \/ root \in ds)
    THEN [err |-> "no such file or directory", count |-> 0]
    ELSE IF root \in DOMAIN fs THEN [err |-> "", count |-> 1]
    ELSE [err |-> "", count |-> Cardinality(FilesUnder(fs, root))]

IsContainerName(path) == Ext(Base(path)) = NokvaultExt

\* the first walk of DecryptDirectory: counts the .nokvault files
CountContainers(fs, ds, root) ==
    IF ~(root \in DOMAIN fs \/ root \in ds)
    THEN [err |-> "no such file or directory", count |-> 0]
    ELSE IF root \in DOMAIN fs
    THEN [err |-> "", count |-> IF IsContainerName(root) THEN 1 ELSE 0]
    ELSE [err |-> "",
          count |-> Cardinality({ q \in FilesUnder(fs, root) : IsContainerName(q) })]

(***************************************************************************)
(* The single-file pipelines of the directory operations.                  *)
(***************************************************************************)
MinCompressSize == 1024

\* DirectoryEncryptor.encryptFileWithMetadata
encryptFileWithMetadata(fs, ds, inputPath, outputPath, key, salt, compress, nonce) ==
    LET rm == ReadMetadata(fs, inputPath)
    IN  IF rm.err # "" THEN [err |-> rm.err, files |-> fs, ciphertext |-> <<>>]
        ELSE IF inputPath \in unreadable
        THEN [err |-> "failed to read file", files |-> fs, ciphertext |-> <<>>]
        ELSE
        LET metadata == Ptr([Deref(rm.metadata) EXCEPT !.RelativePath = Base(inputPath)])
            raw      == fs[inputPath]
            data     == IF compress /\ ShouldCompress(raw, MinCompressSize)
                        THEN Compress(raw) ELSE raw
            e        == EncryptData(data, key, nonce)
        IN  IF e.err # "" THEN [err |-> "encryption failed", files |-> fs,
                                ciphertext |-> <<>>]
            ELSE IF outputPath \in ds
            THEN [err |-> "failed to create output file", files |-> fs,
                  ciphertext |-> <<>>]
            ELSE LET w == WriteHeader(salt, metadata)
                 IN  IF w.err # ""
                     THEN [err |-> "failed to write header",
                           files |-> WithFile(fs, outputPath, <<>>),
                           ciphertext |-> <<>>]
                     ELSE [err |-> "",
                           files |-> WithFile(fs, outputPath, w.out \o e.ciphertext),
                           ciphertext |-> e.ciphertext]

\* a decryptFileWithMetadata that writes the output before it looks at the
\* result of DecryptData
decryptFileWithMetadataWriteFirst(fs, ds, inputPath, outputPath, key) ==
    IF inputPath \notin DOMAIN fs \/ inputPath \in unreadable
    THEN [err |-> "failed to open input file", files |-> fs, panic |-> FALSE]
    ELSE
    LET h == ReadHeaderWithMetadata(fs[inputPath])
    IN  IF h.err # "" THEN [err |-> "failed to read header", files |-> fs,
                            panic |-> FALSE]
        ELSE
        LET dataStart == Deref(h.header).DataOffset
        IN  IF dataStart > Len(fs[inputPath])
            THEN [err |-> "panic: slice bounds out of range", files |-> fs,
                  panic |-> TRUE]
            ELSE
            LET d == DecryptData(ReadFromOffset(fs[inputPath], dataStart), key)
            IN  IF outputPath \in ds
                THEN [err |-> "failed to write output file", files |-> fs,
                      panic |-> FALSE]
                ELSE [err |-> IF d.err # "" THEN "decryption failed" ELSE "",
                      files |-> WithFile(fs, outputPath, MaybeDecompress(d.plaintext)),
                      panic |-> FALSE]

\* DirectoryDecryptor.decryptFileWithMetadata; ciphertext[dataStart:] panics
\* when dataStart is beyond the end of the file
decryptFileWithMetadata(fs, ds, inputPath, outputPath, key) ==
    IF inputPath \notin DOMAIN fs \/ inputPath \in unreadable
    THEN [err |-> "failed to open input file", files |-> fs, panic |-> FALSE]
    ELSE
    LET h == ReadHeaderWithMetadata(fs[inputPath])
    IN  IF h.err # "" THEN [err |-> "failed to read header", files |-> fs,
                            panic |-> FALSE]
        ELSE
        LET dataStart == Deref(h.header).DataOffset
        IN  IF dataStart > Len(fs[inputPath])
            THEN [err |-> "panic: slice bounds out of range", files |-> fs,
                  panic |-> TRUE]
            ELSE
            LET d == DecryptData(ReadFromOffset(fs[inputPath], dataStart), key)
            IN  IF d.err # "" THEN [err |-> "decryption failed", files |-> fs,
                                    panic |-> FALSE]
                ELSE IF outputPath \in ds
                THEN [err |-> "failed to write output file", files |-> fs,
                      panic |-> FALSE]
                ELSE [err |-> "",
                      files |-> WithFile(fs, outputPath, MaybeDecompress(d.plaintext)),
                      panic |-> FALSE]

(***************************************************************************)
(* The directory operations (DirectoryEncryptor.EncryptDirectory and       *)
(* DirectoryDecryptor.DecryptDirectory): a start action that counts, then  *)
(* one action per entry the walk visits.  job.attempted, job.written,      *)
(* job.enc and job.tampered record what happened, for the properties.      *)
(***************************************************************************)
\* "in", "enc", "dec"
InDir == << <<105, 110>> >>

EncDir == << <<101, 110, 99>> >>

DecDir == << <<100, 101, 99>> >>

\* a.txt, b.gz, sub/c.txt
RelPaths == << <<NameA>>, <<NameB>>, <<NameSub, NameC>> >>

DirPassword == <<112, 49>>

DirSalt == CHOOSE salt \in Salts : TRUE

DirNonces == { CHOOSE nonce \in Nonces : TRUE }

\* the file at path, if there is one
FileAt(fs, path) == IF path \in DOMAIN fs THEN Ptr(fs[path]) ELSE Nil

\* the state of a directory operation that returned err
JobReturn(j, err, rel) == [j EXCEPT !.pc = "done", !.err = err, !.errPath = rel]

\* what Walk does after a callback returned nil with rest left to visit
JobContinue(j, rest) ==
    IF rest = <<>> THEN [j EXCEPT !.pc = "done", !.todo = rest]
    ELSE [j EXCEPT !.todo = rest]

NewJob(op, inputDir, outputDir, key, salt, compress) ==
    [pc |-> "walk", op |-> op, inputDir |-> inputDir, outputDir |-> outputDir,
     key |-> key, salt |-> salt, compress |-> compress,
     todo |-> <<inputDir>>, currentFile |-> 0, totalFiles |-> 0,
     progress |-> <<>>, err |-> "", errPath |-> <<>>, panic |-> FALSE,
     attempted |-> <<>>, written |-> NoFiles,
     enc |-> job.enc, tampered |-> job.tampered]

\* EncryptDirectory up to the walk: EnsureDirectory(outputDir), CountFiles
EncryptDirectoryStart(inputDir, outputDir, key, salt, compress) ==
    /\ job.pc = "idle"
    /\ UNCHANGED <<sd, kc, fw, pend, files, unreadable, hdr, rot>>
    /\ LET j == NewJob("encrypt", inputDir, outputDir, key, salt, compress)
       IN  IF EnsureDirectoryErr(files, outputDir) # ""
           THEN /\ job' = JobReturn(j, "failed to create output directory", <<>>)
                /\ UNCHANGED dirs
           ELSE /\ dirs' = EnsureDirectory(dirs, outputDir)
                /\ LET c == CountFiles(files, dirs', inputDir)
                   IN  IF c.err # ""
                       THEN job' = JobReturn(j, "failed to count files", <<>>)
                       ELSE job' = [j EXCEPT !.totalFiles = c.count]

\* one callback of the walk of EncryptDirectory
EncryptStep(nonce) ==
    /\ job.pc = "walk" /\ job.op = "encrypt"
    /\ UNCHANGED <<sd, kc, fw, pend, unreadable, hdr, rot>>
    /\ LET path == Head(job.todo)
           rest == Tail(job.todo)
       IN  IF ~Exists(path)
           THEN /\ job' = JobReturn(job, "error accessing", path)
                /\ UNCHANGED <<files, dirs>>
           ELSE IF path \in dirs
           THEN /\ job' = JobContinue(job, ChildPaths(files, dirs, path) \o rest)
                /\ UNCHANGED <<files, dirs>>
           ELSE
           LET relPath    == GetRelativePath(job.inputDir, path)
               outputPath == Join(job.outputDir, AddExt(relPath, NokvaultExt))
               j1 == [job EXCEPT !.currentFile = @ + 1]
           IN  IF EnsureDirectoryErr(files, Dir(outputPath)) # ""
               THEN /\ job' = JobReturn(j1, "failed to create output directory", relPath)
                    /\ UNCHANGED <<files, dirs>>
               ELSE
               LET ds == EnsureDirectory(dirs, Dir(outputPath))
                   j2 == [j1 EXCEPT !.progress = Append(@,
                            [current |-> j1.currentFile, total |-> j1.totalFiles,
                             file |-> relPath])]
                   r  == encryptFileWithMetadata(files, ds, path, outputPath,
                            job.key, job.salt, job.compress, nonce)
                   j3 == [j2 EXCEPT !.attempted = Append(@,
                                       [path |-> path, rel |-> relPath, err |-> r.err,
                                        out |-> outputPath,
                                        before |-> FileAt(files, outputPath)]),
                                    !.written = IF r.err = ""
                                                THEN WithFile(@, outputPath, r.ciphertext)
                                                ELSE @]
               IN  /\ dirs' = ds
                   /\ files' = r.files
                   /\ job' = IF r.err # ""
                             THEN JobReturn(j3, "failed to encrypt", relPath)
                             ELSE JobContinue(j3, rest)

\* DecryptDirectory up to the second walk: EnsureDirectory(outputDir), the
\* count of the .nokvault files
DecryptDirectoryStart(inputDir, outputDir, key) ==
    /\ job.pc = "idle" \/ (job.pc = "done" /\ job.op = "encrypt")
    /\ UNCHANGED <<sd, kc, fw, pend, files, unreadable, hdr, rot>>
    /\ LET j0 == NewJob("decrypt", inputDir, outputDir, key, <<>>, FALSE)
           j  == IF job.pc = "done"
                 THEN [j0 EXCEPT !.enc = Ptr([err |-> job.err, key |-> job.key,
                                              compress |-> job.compress,
                                              written |-> job.written])]
                 ELSE j0
       IN  IF EnsureDirectoryErr(files, outputDir) # ""
           THEN /\ job' = JobReturn(j, "failed to create output directory", <<>>)
                /\ UNCHANGED dirs
           ELSE /\ dirs' = EnsureDirectory(dirs, outputDir)
                /\ LET c == CountContainers(files, dirs', inputDir)
                   IN  IF c.err # ""
                       THEN job' = JobReturn(j, "failed to count files", <<>>)
                       ELSE job' = [j EXCEPT !.totalFiles = c.count]

\* one callback of the second walk of DecryptDirectory
DecryptStep ==
    /\ job.pc = "walk" /\ job.op = "decrypt"
    /\ UNCHANGED <<sd, kc, fw, pend, unreadable, hdr, rot>>
    /\ LET path == Head(job.todo)
           rest == Tail(job.todo)
       IN  IF ~Exists(path)
           THEN /\ job' = JobReturn(job, "error accessing", path)
                /\ UNCHANGED <<files, dirs>>
           ELSE IF path \in dirs
           THEN /\ job' = JobContinue(job, ChildPaths(files, dirs, path) \o rest)
                /\ UNCHANGED <<files, dirs>>
           ELSE IF ~IsContainerName(path)
           THEN /\ job' = JobContinue(job, rest)
                /\ UNCHANGED <<files, dirs>>
           ELSE
           LET relPath       == GetRelativePath(job.inputDir, path)
               outputRelPath == CutExt(relPath, NokvaultExt)
               outputPath    == Join(job.outputDir, outputRelPath)
               j1 == [job EXCEPT !.currentFile = @ + 1]
           IN  IF EnsureDirectoryErr(files, Dir(outputPath)) # ""
               THEN /\ job' = JobReturn(j1, "failed to create output directory", relPath)
                    /\ UNCHANGED <<files, dirs>>
               ELSE
               LET ds == EnsureDirectory(dirs, Dir(outputPath))
                   j2 == [j1 EXCEPT !.progress = Append(@,
                            [current |-> j1.currentFile, total |-> j1.totalFiles,
                             file |-> outputRelPath])]
                   r  == decryptFileWithMetadata(files, ds, path, outputPath, job.key)
                   j3 == [j2 EXCEPT !.attempted = Append(@,
                                       [path |-> path, rel |-> relPath, err |-> r.err,
                                        out |-> outputPath,
                                        before |-> FileAt(files, outputPath)]),
                                    !.panic = r.panic]
               IN  /\ dirs' = ds
                   /\ files' = r.files
                   /\ job' = IF r.err # ""
                             THEN JobReturn(j3, "failed to decrypt", relPath)
                             ELSE JobContinue(j3, rest)

\* between the two operations, somebody changes one byte of the ciphertext
\* of one container: of its nonce, of its body, or of its tag
TamperIndex(bytes, where) ==
    LET h == ReadHeader(bytes)
    IN  IF h.err # "" THEN 0
        ELSE LET off == Deref(h.header).DataOffset
                 i   == CASE where = "nonce" -> off + 1
                          [] where = "body"  -> off + NonceSize + 1
                          [] where = "tag"   -> Len(bytes)
             IN  IF off < i /\ i <= Len(bytes) THEN i ELSE 0

Tamper(path, where) ==
    /\ job.pc = "done" /\ job.op = "encrypt"
    /\ job.tampered = {}
    /\ path \in DOMAIN job.written
    /\ TamperIndex(files[path], where) # 0
    /\ files' = [files EXCEPT ![path] =
                    [@ EXCEPT ![TamperIndex(files[path], where)] = (@ + 1) % 256]]
    /\ job' = [job EXCEPT !.tampered = {path}]
    /\ UNCHANGED <<sd, kc, fw, pend, dirs, unreadable, hdr, rot>>

(***************************************************************************)
(* The directory scenarios: a tree under "in" is encrypted into "enc",     *)
(* which is then decrypted into "dec".                                     *)
(***************************************************************************)
Absent == <<256>>

Hi == <<72, 105>>

\* more than the 1024 bytes from which the pipeline compresses
Big == Rep(65, MinCompressSize + 1)

\* ordinary text, a valid gzip stream, the gzip magic followed by garbage,
\* the gzip magic alone; a.txt may also be large enough to be compressed
DirContents == {Hi, Compress(Hi), <<31, 139, 7>>, <<31, 139>>}

FaultContents == {Hi, <<31, 139, 7>>}

Tree(root, assign) ==
    [p \in { Join(root, RelPaths[i]) : i \in {k \in DOMAIN RelPaths : assign[k] # Absent} }
        |-> LET i == CHOOSE k \in DOMAIN RelPaths : Join(root, RelPaths[k]) = p
            IN  assign[i]]

TreeDirs(fs, root) == {root} \cup UNION { Prefixes(Dir(p)) : p \in DOMAIN fs }

DirKey == DeriveKeyFromPasswordAndSalt(DirPassword, DirSalt).key

WrongKey == DeriveKeyFromPasswordAndSalt(<<112, 50>>, DirSalt).key

InitDir ==
    /\ \E assign \in [DOMAIN RelPaths -> DirContents \cup {Absent, Big}] :
          /\ assign[2] # Big /\ assign[3] # Big
          /\ files = Tree(InDir, assign)
          /\ dirs = TreeDirs(files, InDir)
    /\ unreadable = {}
    /\ HdrInit
    /\ rot = RotIdle
    /\ job = JobIdle
    /\ RestIdle

DirNext ==
    \/ \E compress \in BOOLEAN :
          EncryptDirectoryStart(InDir, EncDir, DirKey, DirSalt, compress)
    \/ \E nonce \in DirNonces : EncryptStep(nonce)
    \/ DecryptDirectoryStart(EncDir, DecDir, DirKey)
    \/ DecryptStep

Spec == InitDir /\ [][DirNext]_vars

\* the same, with the faults: an unreadable input file, a stale file where
\* an output goes, a changed container, the wrong key
InitDirFaults ==
    /\ \E assign \in [DOMAIN RelPaths -> FaultContents \cup {Absent}],
          stale \in SUBSET { Join(DecDir, RelPaths[1]) } :
          /\ files = Tree(InDir, assign) @@ [p \in stale |-> <<111, 108, 100>>]
          /\ dirs = TreeDirs(Tree(InDir, assign), InDir) \cup
                    (IF stale = {} THEN {} ELSE {DecDir})
          /\ \E u \in SUBSET DOMAIN Tree(InDir, assign) :
                /\ Cardinality(u) <= 1
                /\ unreadable = u
    /\ HdrInit
    /\ rot = RotIdle
    /\ job = JobIdle
    /\ RestIdle

DirFaultsNext ==
    \/ EncryptDirectoryStart(InDir, EncDir, DirKey, DirSalt, FALSE)
    \/ \E nonce \in DirNonces : EncryptStep(nonce)
    \/ \E i \in DOMAIN RelPaths, where \in {"nonce", "body", "tag"} :
          Tamper(Join(EncDir, AddExt(RelPaths[i], NokvaultExt)), where)
    \/ \E key \in {DirKey, WrongKey} : DecryptDirectoryStart(EncDir, DecDir, key)
    \/ DecryptStep

SpecDirFaults == InitDirFaults /\ [][DirFaultsNext]_vars

(***************************************************************************)
(* The single-file pipelines of the command line (cli/encrypt.go,          *)
(* cli/decrypt.go) and a scenario that calls them and the core pipelines   *)
(* on one file, with the inputs a caller can pass: a key or salt of the    *)
(* wrong length, a container whose dataOffset field was changed.           *)
(***************************************************************************)
\* encryptFileWithCompression: as the core pipeline, RelativePath left as
\* ReadMetadata set it
encryptFileWithCompression(fs, ds, inputPath, outputPath, key, salt, compress, nonce) ==
    LET rm == ReadMetadata(fs, inputPath)
    IN  IF rm.err # "" THEN [err |-> "failed to read metadata", files |-> fs,
                             ciphertext |-> <<>>]
        ELSE IF inputPath \in unreadable
        THEN [err |-> "failed to read file", files |-> fs, ciphertext |-> <<>>]
        ELSE
        LET raw  == fs[inputPath]
            data == IF compress /\ ShouldCompress(raw, MinCompressSize)
                    THEN Compress(raw) ELSE raw
            e    == EncryptData(data, key, nonce)
        IN  IF e.err # "" THEN [err |-> "Encryption failed", files |-> fs,
                                ciphertext |-> <<>>]
            ELSE IF outputPath \in ds
            THEN [err |-> "failed to create output file", files |-> fs,
                  ciphertext |-> <<>>]
            ELSE LET w == WriteHeader(salt, rm.metadata)
                 IN  IF w.err # ""
                     THEN [err |-> "failed to write header",
                           files |-> WithFile(fs, outputPath, <<>>),
                           ciphertext |-> <<>>]
                     ELSE [err |-> "",
                           files |-> WithFile(fs, outputPath, w.out \o e.ciphertext),
                           ciphertext |-> e.ciphertext]

\* decryptSingleFile: inputFile.Seek(DataOffset), io.ReadAll; a seek beyond
\* the end of the file reads nothing
decryptSingleFile(fs, ds, inputPath, outputPath, key) ==
    IF inputPath \notin DOMAIN fs \/ inputPath \in unreadable
    THEN [err |-> "failed to open input file", files |-> fs, panic |-> FALSE]
    ELSE
    LET h == ReadHeaderWithMetadata(fs[inputPath])
    IN  IF h.err # "" THEN [err |-> "failed to read header", files |-> fs,
                            panic |-> FALSE]
        ELSE
        LET d == DecryptData(ReadFromOffset(fs[inputPath],
                                            Deref(h.header).DataOffset), key)
        IN  IF d.err # "" THEN [err |-> "decryption failed", files |-> fs,
                                panic |-> FALSE]
            ELSE IF outputPath \in ds
            THEN [err |-> "failed to write output file", files |-> fs,
                  panic |-> FALSE]
            ELSE [err |-> "",
                  files |-> WithFile(fs, outputPath, MaybeDecompress(d.plaintext)),
                  panic |-> FALSE]

FileIn == Join(InDir, <<NameA>>)

FileEnc == Join(EncDir, AddExt(<<NameA>>, NokvaultExt))

FileDec == Join(DecDir, <<NameA>>)

\* a key of 16 bytes, where 32 are required
ShortKey == Rep(7, 16)

\* bytes with the header's DataOffset field set to v
SetDataOffset(bytes, v) ==
    LET at == SizeUpTo(FieldIndex("DataOffset") - 1)
    IN  Take(bytes, at) \o LE(v, 8) \o Drop(bytes, at + 8)

\* the values the scenario gives the field of a container of n bytes whose
\* ciphertext begins at off: left alone, the header size, one less than the
\* length, the length, one more than the length, far beyond
OffsetsFor(n, off) == {off, HeaderSize, n - 1, n, n + 1, Huge}

FileOp(op, r, key, salt, outputPath) ==
    [pc |-> "done", op |-> op, err |-> r.err, key |-> key, salt |-> salt,
     out |-> outputPath, before |-> FileAt(files, outputPath),
     enc |-> Nil, tampered |-> {}]

EncryptFileCore(key, salt, compress, nonce) ==
    /\ job.pc = "idle"
    /\ LET r == encryptFileWithMetadata(files, dirs, FileIn, FileEnc, key, salt,
                                        compress, nonce)
       IN  /\ files' = r.files
           /\ job' = FileOp("encryptFileWithMetadata", r, key, salt, FileEnc)
    /\ UNCHANGED <<sd, kc, fw, pend, dirs, unreadable, hdr, rot>>

EncryptFileCLI(key, salt, compress, nonce) ==
    /\ job.pc = "idle"
    /\ LET r == encryptFileWithCompression(files, dirs, FileIn, FileEnc, key, salt,
                                           compress, nonce)
       IN  /\ files' = r.files
           /\ job' = FileOp("encryptFileWithCompression", r, key, salt, FileEnc)
    /\ UNCHANGED <<sd, kc, fw, pend, dirs, unreadable, hdr, rot>>

DecryptFileCore(key) ==
    /\ job.pc = "idle"
    /\ LET r == decryptFileWithMetadata(files, dirs, FileEnc, FileDec, key)
       IN  /\ files' = r.files
           /\ job' = [FileOp("decryptFileWithMetadata", r, key, <<>>, FileDec)
                        EXCEPT !.pc = IF r.panic THEN "crashed" ELSE "done"]
    /\ UNCHANGED <<sd, kc, fw, pend, dirs, unreadable, hdr, rot>>

DecryptFileCLI(key) ==
    /\ job.pc = "idle"
    /\ LET r == decryptSingleFile(files, dirs, FileEnc, FileDec, key)
       IN  /\ files' = r.files
           /\ job' = [FileOp("decryptSingleFile", r, key, <<>>, FileDec)
                        EXCEPT !.pc = IF r.panic THEN "crashed" ELSE "done"]
    /\ UNCHANGED <<sd, kc, fw, pend, dirs, unreadable, hdr, rot>>

\* "in/a.txt" and, or, a container of it under "enc" whose dataOffset field
\* has one of the values of OffsetsFor; a stale output may stand under "dec"
InitFile ==
    /\ unreadable = {}
    /\ \E content \in FaultContents, withEnc \in BOOLEAN, stale \in BOOLEAN :
          LET plain == [p \in {FileIn} |-> content]
              e     == encryptFileWithMetadata(plain, {InDir, EncDir}, FileIn, FileEnc,
                          DirKey, DirSalt, FALSE, CHOOSE n \in Nonces : TRUE)
              good  == e.files[FileEnc]
              off   == Deref(ReadHeader(good).header).DataOffset
          IN  \E v \in OffsetsFor(Len(good), off) :
                 /\ withEnc \/ v = off
                 /\ files = (IF withEnc
                             THEN WithFile(plain, FileEnc, SetDataOffset(good, v))
                             ELSE plain)
                            @@ [p \in (IF stale THEN {FileDec} ELSE {})
                                  |-> <<111, 108, 100>>]
    /\ dirs = {InDir, EncDir, DecDir}
    /\ HdrInit
    /\ rot = RotIdle
    /\ job = JobIdle
    /\ RestIdle

FileNext ==
    \/ \E key \in {DirKey, ShortKey}, salt \in {DirSalt, ShortSalt},
          compress \in BOOLEAN, nonce \in DirNonces :
             EncryptFileCore(key, salt, compress, nonce)
    \/ \E key \in {DirKey, ShortKey}, salt \in {DirSalt, ShortSalt},
          compress \in BOOLEAN, nonce \in DirNonces :
             EncryptFileCLI(key, salt, compress, nonce)
    \/ \E key \in {DirKey, WrongKey, ShortKey} : DecryptFileCore(key)
    \/ \E key \in {DirKey, WrongKey, ShortKey} : DecryptFileCLI(key)

SpecFile == InitFile /\ [][FileNext]_vars

(***************************************************************************)
(* SecureDeleteService (core/encryption.go).  sd.log is the sequence of    *)
(* the file operations Delete has completed, in order.                     *)
(***************************************************************************)
\* the largest number of passes the scenario asks for
MaxPasses == 4

\* a constructor that keeps a number of passes below 1
NewSecureDeleteServiceNoDefault(passes) == [passes |-> passes]

\* NewSecureDeleteService: passes below 1 become 3
NewSecureDeleteService(passes) ==
    [passes |-> IF passes < 1 THEN 3 ELSE passes]

\* the values rand.Read can fill a buffer of size bytes with
RandomPatterns(size) == { [i \in 1..size |-> (r + 7 * i) % 256] : r \in {17, 170} }

\* a choice of pattern that starts with the zeros
PatternOffByOne(pass, size, random) ==
    CASE (pass + 1) % 3 = 0 -> random
      [] (pass + 1) % 3 = 1 -> Rep(0, size)
      [] (pass + 1) % 3 = 2 -> Rep(255, size)

\* overwritePass: the pattern of a pass, by pass modulo 3
Pattern(pass, size, random) ==
    CASE pass % 3 = 0 -> random
      [] pass % 3 = 1 -> Rep(0, size)
      [] pass % 3 = 2 -> Rep(255, size)

SdReturn(s, err) == [s EXCEPT !.pc = "done", !.err = err]

\* Delete up to the loop: os.OpenFile, file.Stat, and the empty file's os.Remove
DeleteOpen(passes, filePath, statOK, removeOK) ==
    /\ sd.pc = "idle"
    /\ UNCHANGED <<dirs, unreadable, hdr, rot, job, kc, fw, pend>>
    /\ LET s0 == [pc |-> "pass", requested |-> passes,
                  passes |-> NewSecureDeleteService(passes).passes,
                  filePath |-> filePath, existed |-> filePath \in DOMAIN files,
                  fileSize |-> 0, pass |-> 0, log |-> <<>>, err |-> "",
                  before |-> files]
       IN  IF filePath \notin DOMAIN files
           THEN sd' = SdReturn(s0, "failed to open file") /\ UNCHANGED files
           ELSE IF ~statOK
           THEN sd' = SdReturn(s0, "failed to stat file") /\ UNCHANGED files
           ELSE IF Len(files[filePath]) = 0
           THEN IF removeOK
                THEN /\ files' = WithoutFile(files, filePath)
                     /\ sd' = SdReturn([s0 EXCEPT !.log = <<[op |-> "remove"]>>], "")
                ELSE sd' = SdReturn(s0, "remove failed") /\ UNCHANGED files
           ELSE /\ sd' = [s0 EXCEPT !.fileSize = Len(files[filePath]),
                                     !.pc = IF 0 < s0.passes THEN "pass"
                                                            ELSE "remove"]
                /\ UNCHANGED files

\* an overwritePass that unlinks the file when it fails
OverwritePassUnlinkOnError(fault, random, n) ==
    /\ sd.pc = "pass"
    /\ sd.pass < sd.passes
    /\ Len(random) = sd.fileSize
    /\ n < sd.fileSize
    /\ UNCHANGED <<dirs, unreadable, hdr, rot, job, kc, fw, pend>>
    /\ LET pattern == Pattern(sd.pass, sd.fileSize, random)
           seek    == [op |-> "seek", pass |-> sd.pass, offset |-> 0]
           write   == [op |-> "write", pass |-> sd.pass, pattern |-> pattern]
           sync    == [op |-> "sync", pass |-> sd.pass]
           failed  == SdReturn(sd, "overwrite pass failed")
       IN  CASE fault = "seek" ->
                  /\ sd' = failed
                  /\ files' = WithoutFile(files, sd.filePath)
             [] fault = "rand" ->
                  /\ sd' = [failed EXCEPT !.log = @ \o <<seek>>]
                  /\ files' = WithoutFile(files, sd.filePath)
             [] fault = "write" ->
                  /\ sd' = [failed EXCEPT !.log = @ \o <<seek>>]
                  /\ files' = WithoutFile(files, sd.filePath)
             [] fault = "sync" ->
                  /\ sd' = [failed EXCEPT !.log = @ \o <<seek, write>>]
                  /\ files' = WithoutFile(files, sd.filePath)
             [] fault = "none" ->
                  /\ sd' = [sd EXCEPT !.log = @ \o <<seek, write, sync>>,
                                      !.pass = @ + 1,
                                      !.pc = IF sd.pass + 1 < sd.passes
                                             THEN "pass" ELSE "remove"]
                  /\ files' = WithFile(files, sd.filePath, pattern)

\* one turn of the loop of Delete: overwritePass(file, fileSize, pass), which
\* seeks to 0, builds the pattern, writes it and syncs; a failing write has
\* written n bytes
OverwritePass(fault, random, n) ==
    /\ sd.pc = "pass"
    /\ sd.pass < sd.passes
    /\ Len(random) = sd.fileSize
    /\ n < sd.fileSize
    /\ UNCHANGED <<dirs, unreadable, hdr, rot, job, kc, fw, pend>>
    /\ LET pattern == Pattern(sd.pass, sd.fileSize, random)
           seek    == [op |-> "seek", pass |-> sd.pass, offset |-> 0]
           write   == [op |-> "write", pass |-> sd.pass, pattern |-> pattern]
           sync    == [op |-> "sync", pass |-> sd.pass]
           failed  == SdReturn(sd, "overwrite pass failed")
       IN  CASE fault = "seek" ->
                  /\ sd' = failed
                  /\ UNCHANGED files
             [] fault = "rand" ->
                  /\ sd' = [failed EXCEPT !.log = @ \o <<seek>>]
                  /\ UNCHANGED files
             [] fault = "write" ->
                  /\ sd' = [failed EXCEPT !.log = @ \o <<seek>>]
                  /\ files' = WithFile(files, sd.filePath,
                                 Take(pattern, n) \o Drop(files[sd.filePath], n))
             [] fault = "sync" ->
                  /\ sd' = [failed EXCEPT !.log = @ \o <<seek, write>>]
                  /\ files' = WithFile(files, sd.filePath, pattern)
             [] fault = "none" ->
                  /\ sd' = [sd EXCEPT !.log = @ \o <<seek, write, sync>>,
                                      !.pass = @ + 1,
                                      !.pc = IF sd.pass + 1 < sd.passes
                                             THEN "pass" ELSE "remove"]
                  /\ files' = WithFile(files, sd.filePath, pattern)

\* file.Close(), then os.Remove(filePath)
DeleteRemove(removeOK) ==
    /\ sd.pc = "remove"
    /\ UNCHANGED <<dirs, unreadable, hdr, rot, job, kc, fw, pend>>
    /\ IF removeOK
       THEN /\ files' = WithoutFile(files, sd.filePath)
            /\ sd' = SdReturn([sd EXCEPT !.log = Append(@, [op |-> "remove"])], "")
       ELSE /\ sd' = SdReturn(sd, "failed to delete file")
            /\ UNCHANGED files

\* a file of 0, 2 or 3 bytes at "in/a.txt", or no file there
InitDelete ==
    /\ \E content \in {Absent, <<>>, Hi, <<1, 2, 3>>} :
          files = Tree(InDir, [i \in DOMAIN RelPaths |->
                                  IF i = 1 THEN content ELSE Absent])
    /\ dirs = {InDir}
    /\ unreadable = {}
    /\ HdrInit
    /\ rot = RotIdle
    /\ job = JobIdle
    /\ sd = SdIdle /\ kc = KcIdle /\ fw = FwIdle /\ pend = PendIdle

DeleteNext ==
    \/ \E passes \in (-1)..MaxPasses, statOK \in BOOLEAN, removeOK \in BOOLEAN :
          DeleteOpen(passes, FileIn, statOK, removeOK)
    \/ \E fault \in {"none", "seek", "rand", "write", "sync"},
          random \in RandomPatterns(2) \cup RandomPatterns(3), n \in 0..1 :
          OverwritePass(fault, random, n)
    \/ \E removeOK \in BOOLEAN : DeleteRemove(removeOK)

SpecDelete == InitDelete /\ [][DeleteNext]_vars

(***************************************************************************)
(* KeyCache (core/key_manager.go).  The cache is a plain Go map shared by  *)
(* the goroutines that call Get, Set and Clear; each statement of a call   *)
(* that touches the map is one step.  An entry carries the number of the   *)
(* Set that stored it, which stands for the pointer *CachedKey.            *)
(***************************************************************************)
Threads == {1, 2}
KeyIDs == {"a", "b"}
\* the cache's ttl, in ticks of the clock
TTL == 1
\* the last tick of the clock
MaxNow == 2
\* the number of Set calls of a run
MaxSets == 2

\* NewKeyCache
NewKeyCache == [id \in KeyIDs |-> Nil]

ThreadIdle ==
    [pc |-> "idle", op |-> "none", id |-> "a", gen |-> 0, cached |-> Nil, ret |-> Nil,
     at |-> 0]

KcRunning == kc.pc = "run"

KcAt(t, pc) == KcRunning /\ kc.th[t].pc = pc

KcRest == UNCHANGED <<files, dirs, unreadable, hdr, rot, job, sd, fw, pend>>

\* a goroutine calls Get(keyID), Set(keyID, key) or Clear()
KcCall(t, op, keyID) ==
    /\ KcAt(t, "idle")
    /\ op = "set" => kc.sets < MaxSets
    /\ kc' = [kc EXCEPT !.th[t] = [pc |-> CASE op = "get" -> "getRead"
                                            [] op = "set" -> "setStore"
                                            [] op = "clear" -> "clearStore",
                                   op |-> op, id |-> keyID,
                                   gen |-> IF op = "set" THEN kc.sets + 1 ELSE 0,
                                   cached |-> Nil, ret |-> Nil, at |-> 0],
                        !.sets = IF op = "set" THEN @ + 1 ELSE @]
    /\ KcRest

\* Get: cached, exists := kc.cache[keyID]; if !exists return nil, false
GetRead(t) ==
    /\ KcAt(t, "getRead")
    /\ LET cached == kc.cache[kc.th[t].id]
       IN  kc' = IF cached = Nil
                 THEN [kc EXCEPT !.th[t].pc = "idle",
                                 !.th[t].ret = Ptr([ok |-> FALSE, gen |-> 0,
                                                    at |-> kc.now])]
                 ELSE [kc EXCEPT !.th[t].pc = "getCheck",
                                 !.th[t].cached = cached]
    /\ KcRest

\* a Get for which an entry has expired once its expiry time is reached
GetCheckAtExpiry(t) ==
    /\ KcAt(t, "getCheck")
    /\ kc' = IF kc.now >= Deref(kc.th[t].cached).expiresAt
             THEN [kc EXCEPT !.th[t].pc = "getDelete", !.th[t].at = kc.now]
             ELSE [kc EXCEPT !.th[t].pc = "idle",
                             !.th[t].ret = Ptr([ok |-> TRUE,
                                                gen |-> Deref(kc.th[t].cached).gen,
                                                at |-> kc.now])]
    /\ KcRest

\* Get: if time.Now().After(cached.ExpiresAt) ...; return cached.Key, true
GetCheck(t) ==
    /\ KcAt(t, "getCheck")
    /\ kc' = IF kc.now > Deref(kc.th[t].cached).expiresAt
             THEN [kc EXCEPT !.th[t].pc = "getDelete", !.th[t].at = kc.now]
             ELSE [kc EXCEPT !.th[t].pc = "idle",
                             !.th[t].ret = Ptr([ok |-> TRUE,
                                                gen |-> Deref(kc.th[t].cached).gen,
                                                at |-> kc.now])]
    /\ KcRest

\* Get: delete(kc.cache, keyID); return nil, false
GetDelete(t) ==
    /\ KcAt(t, "getDelete")
    /\ kc' = [kc EXCEPT !.cache[kc.th[t].id] = Nil,
                        !.th[t].pc = "idle",
                        !.th[t].ret = Ptr([ok |-> FALSE, gen |-> 0,
                                           at |-> kc.th[t].at])]
    /\ KcRest

\* Set: kc.cache[keyID] = &CachedKey{Key: key, ExpiresAt: time.Now().Add(kc.ttl)}
SetStore(t) ==
    /\ KcAt(t, "setStore")
    /\ kc' = [kc EXCEPT !.cache[kc.th[t].id] =
                            Ptr([key |-> DirKey, expiresAt |-> kc.now + TTL,
                                 gen |-> kc.th[t].gen]),
                        !.stored[kc.th[t].id] = Ptr([gen |-> kc.th[t].gen,
                                                     at |-> kc.now]),
                        !.th[t].pc = "idle"]
    /\ KcRest

\* Clear: kc.cache = make(map[string]*CachedKey)
ClearStore(t) ==
    /\ KcAt(t, "clearStore")
    /\ kc' = [kc EXCEPT !.cache = NewKeyCache,
                        !.stored = NewKeyCache,
                        !.cleared = @ \cup { Deref(kc.cache[id]).gen :
                                             id \in {i \in KeyIDs : kc.cache[i] # Nil} },
                        !.th[t].pc = "idle"]
    /\ KcRest

\* the statements that read the map, and those that write it
MapReads == {"getRead"}
MapWrites == {"getDelete", "setStore"}

\* two goroutines are at the map at once, one of them writing: the Go runtime
\* may stop the program with "concurrent map read and map write" or
\* "concurrent map writes"
KcFatal(t, u) ==
    /\ t # u
    /\ KcRunning
    /\ kc.th[t].pc \in MapWrites
    /\ kc.th[u].pc \in MapReads \cup MapWrites
    /\ kc' = [kc EXCEPT !.pc = "crashed"]
    /\ KcRest

\* the clock advances
KcTick ==
    /\ KcRunning
    /\ kc.now < MaxNow
    /\ kc' = [kc EXCEPT !.now = @ + 1]
    /\ KcRest

InitCache ==
    /\ files = NoFiles /\ dirs = {} /\ unreadable = {}
    /\ HdrInit
    /\ rot = RotIdle
    /\ job = JobIdle
    /\ sd = SdIdle /\ fw = FwIdle /\ pend = PendIdle
    /\ kc = [pc |-> "run", cache |-> NewKeyCache, now |-> 0, sets |-> 0,
             cleared |-> {}, th |-> [t \in Threads |-> ThreadIdle],
             stored |-> NewKeyCache]

CacheNext ==
    \/ \E t \in Threads, op \in {"get", "set", "clear"}, keyID \in KeyIDs :
          KcCall(t, op, keyID)
    \/ \E t \in Threads : GetRead(t)
    \/ \E t \in Threads : GetCheck(t)
    \/ \E t \in Threads : GetDelete(t)
    \/ \E t \in Threads : SetStore(t)
    \/ \E t \in Threads : ClearStore(t)
    \/ \E t \in Threads, u \in Threads : KcFatal(t, u)
    \/ KcTick

SpecCache == InitCache /\ [][CacheNext]_vars

\* the KeyCache called by one goroutine, one call after the other
Caller == 1

CacheSeqNext ==
    \/ \E op \in {"get", "set", "clear"}, keyID \in KeyIDs : KcCall(Caller, op, keyID)
    \/ GetRead(Caller)
    \/ GetCheck(Caller)
    \/ GetDelete(Caller)
    \/ SetStore(Caller)
    \/ ClearStore(Caller)
    \/ KcTick

SpecCacheSeq == InitCache /\ [][CacheSeqNext]_vars

(***************************************************************************)
(* The watch command (cli/protect.go) on the directory "in": runWatch and  *)
(* the auto-encrypt callback.  The watch loop calls the callback for one   *)
(* event at a time; the function of a fired timer runs in a goroutine of   *)
(* its own and shares the key slice with runWatch.  Each section under mu  *)
(* is one step.                                                            *)
(***************************************************************************)
\* the number of events of the user's writes the watch loop delivers in a run
MaxEvents == 3

\* the container auto-encryption writes for "in/a.txt"
FileInEnc == AddExt(FileIn, NokvaultExt)

\* the paths events arrive for, all directly inside "in": a file, an excluded
\* file, a directory, a path that is gone and a container
EventPaths ==
    { FileIn, Join(InDir, <<NameB>>), Join(InDir, <<NameSub>>),
      Join(InDir, <<NameC>>), FileInEnc }

\* --exclude "*.gz"
WatchExclude == { <<46, 103, 122>> }

\* a callback that does not skip containers
ShouldScheduleContainers(filePath, op) ==
    /\ op \in {"write", "create"}
    /\ Ext(Base(filePath)) \notin WatchExclude
    /\ filePath \in DOMAIN files

\* the callback's filters: a write or create event, no exclude pattern matches
\* the base name, os.Stat finds a file that is no directory, not a container
ShouldSchedule(filePath, op) ==
    /\ op \in {"write", "create"}
    /\ Ext(Base(filePath)) \notin WatchExclude
    /\ filePath \in DOMAIN files
    /\ Ext(Base(filePath)) # NokvaultExt

\* encryptFileAuto: the file is encrypted, uncompressed, to filePath + ".nokvault"
encryptFileAuto(fs, ds, filePath, key, salt, nonce) ==
    encryptFileWithCompression(fs, ds, filePath, AddExt(filePath, NokvaultExt),
                               key, salt, FALSE, nonce)

\* the watch loop delivers events: from watcher.Start() to the deferred
\* watcher.Stop(), which runs after the deferred ZeroizeKey(key)
PendRunning == pend.pc \in {"run", "zeroizing", "zeroized"}

\* the process has not exited: timers fire and their functions run
ProcessAlive == pend.pc \in {"run", "zeroizing", "zeroized", "stopped"}

TimerIn(id, state) ==
    ProcessAlive /\ id \in DOMAIN pend.timers /\ pend.timers[id].state = state

PendRest == UNCHANGED <<files, dirs, unreadable, hdr, rot, job, sd, kc, fw>>

\* the callback up to the end of its first section under mu: the filters, then
\* timer.Stop() on the timer pendingEncryptions holds for the path (Stop has no
\* effect on a timer that has fired)
encryptCallback(w, filePath, op) ==
    IF ~ShouldSchedule(filePath, op) THEN w
    ELSE LET id == w.map[filePath]
         IN  [w EXCEPT
                 !.cb = [pc |-> "schedule", path |-> filePath],
                 !.timers = IF id # 0 /\ w.timers[id].state = "scheduled"
                            THEN [@ EXCEPT ![id].state = "stopped"] ELSE @]

\* the callback is called for an event of something the user did
CbEvent(filePath, op) ==
    /\ PendRunning
    /\ pend.cb.pc = "idle"
    /\ pend.events < MaxEvents
    /\ pend' = [encryptCallback(pend, filePath, op) EXCEPT !.events = @ + 1]
    /\ PendRest

\* the callback is called for the create or write event of a container that
\* encryptFileAuto wrote into the watched directory
CbOwnOutput(filePath, op) ==
    /\ PendRunning
    /\ pend.cb.pc = "idle"
    /\ filePath \in pend.queue
    /\ pend' = [encryptCallback(pend, filePath, op) EXCEPT
                   !.queue = @ \ {filePath}, !.seen = @ \cup {filePath}]
    /\ PendRest

\* the callback's second section under mu: time.AfterFunc(delay, ...), then
\* pendingEncryptions[filePath] = timer
CbSchedule ==
    /\ ProcessAlive
    /\ pend.cb.pc = "schedule"
    /\ pend' = [pend EXCEPT
            !.timers = Append(@, [path |-> pend.cb.path, state |-> "scheduled"]),
            !.map[pend.cb.path] = Len(pend.timers) + 1,
            !.cb.pc = "idle"]
    /\ PendRest

\* the delay of a timer has passed: the runtime starts its function
TimerFire(id) ==
    /\ TimerIn(id, "scheduled")
    /\ pend' = [pend EXCEPT !.timers[id].state = "fired"]
    /\ PendRest

\* the timer's function: mu.Lock(); delete(pendingEncryptions, filePath); mu.Unlock()
TimerDelete(id) ==
    /\ TimerIn(id, "fired")
    /\ pend' = [pend EXCEPT !.timers[id].state = "deleted",
                            !.map[pend.timers[id].path] = 0]
    /\ PendRest

\* the timer's function: encryptFileAuto(filePath, ...) with the bytes the key
\* slice holds now; a container written into "in" makes events of its own
TimerEncrypt(id, nonce) ==
    /\ TimerIn(id, "deleted")
    /\ LET filePath == pend.timers[id].path
           r == encryptFileAuto(files, dirs, filePath, pend.key, DirSalt, nonce)
       IN  /\ files' = r.files
           /\ pend' = [pend EXCEPT
                          !.timers[id].state = "done",
                          !.queue = IF r.err = "" /\ Dir(filePath) = InDir
                                    THEN @ \cup {AddExt(filePath, NokvaultExt)}
                                    ELSE @]
    /\ UNCHANGED <<dirs, unreadable, hdr, rot, job, sd, kc, fw>>

\* SecureZeroize stopped halfway through its loop
HalfZeroized(key) ==
    [i \in 1..Len(key) |-> IF 2 * i <= Len(key) THEN 0 ELSE key[i]]

\* runWatch receives the signal and returns; its deferred ZeroizeKey(key)
\* begins to overwrite the slice the timers' functions read
RunWatchSignal ==
    /\ pend.pc = "run"
    /\ pend' = [pend EXCEPT !.pc = "zeroizing", !.key = HalfZeroized(@)]
    /\ PendRest

\* the deferred ZeroizeKey(key) is through
RunWatchZeroize ==
    /\ pend.pc = "zeroizing"
    /\ pend' = [pend EXCEPT !.pc = "zeroized", !.key = ZeroizeKey(@)]
    /\ PendRest

\* the deferred watcher.Stop(), the last of runWatch's deferred calls
RunWatchStop ==
    /\ pend.pc = "zeroized"
    /\ pend' = [pend EXCEPT !.pc = "stopped"]
    /\ PendRest

\* the command returns to main and the process exits
RunWatchExit ==
    /\ pend.pc = "stopped"
    /\ pend' = [pend EXCEPT !.pc = "exited"]
    /\ PendRest

InitWatch ==
    /\ unreadable = {}
    /\ files = Tree(InDir, <<Hi, Hi, Hi>>)
    /\ dirs = TreeDirs(files, InDir)
    /\ HdrInit
    /\ rot = RotIdle
    /\ job = JobIdle
    /\ sd = SdIdle /\ kc = KcIdle /\ fw = FwIdle
    /\ pend = [pc |-> "run", map |-> [p \in EventPaths |-> 0], timers |-> <<>>,
               cb |-> [pc |-> "idle", path |-> FileIn], events |-> 0,
               key |-> DirKey, queue |-> {}, seen |-> {}]

WatchNext ==
    \/ \E filePath \in EventPaths, op \in {"write", "create", "remove"} :
          CbEvent(filePath, op)
    \/ \E filePath \in EventPaths, op \in {"write", "create"} :
          CbOwnOutput(filePath, op)
    \/ CbSchedule
    \/ \E id \in 1..MaxEvents : TimerFire(id)
    \/ \E id \in 1..MaxEvents : TimerDelete(id)
    \/ \E id \in 1..MaxEvents, nonce \in DirNonces : TimerEncrypt(id, nonce)
    \/ RunWatchSignal
    \/ RunWatchZeroize
    \/ RunWatchStop
    \/ RunWatchExit

SpecWatch == InitWatch /\ [][WatchNext]_vars

(***************************************************************************)
(* EncryptDirectory on an input directory that may not exist, with the     *)
(* output directory beside the input directory, equal to it or inside it.  *)
(***************************************************************************)
\* "gone", a directory that does not exist
MissingDir == << <<103, 111, 110, 101>> >>

\* "gone/enc"
MissingEncDir == Join(MissingDir, EncDir)

InitMissing ==
    /\ \E assign \in [DOMAIN RelPaths -> FaultContents \cup {Absent}] :
          /\ files = Tree(InDir, assign)
          /\ dirs = TreeDirs(files, InDir)
    /\ unreadable = {}
    /\ HdrInit
    /\ rot = RotIdle
    /\ job = JobIdle
    /\ RestIdle

MissingNext ==
    \/ \E inputDir \in {InDir, MissingDir},
          outputDir \in {EncDir, MissingDir, MissingEncDir} :
          EncryptDirectoryStart(inputDir, outputDir, DirKey, DirSalt, FALSE)
    \/ \E nonce \in DirNonces : EncryptStep(nonce)

SpecMissing == InitMissing /\ [][MissingNext]_vars

(***************************************************************************)
(* FileWatcher of package core: Start, Stop and OnEvent called by one      *)
(* goroutine, as runProtect does, and the watch loop Start launches.       *)
(***************************************************************************)
\* the number of Start and Stop calls of a run
MaxCalls == 4

\* the number of callbacks OnEvent registers in a run
MaxCallbacks == 2

\* the paths callbacks are registered for and events arrive for
WatchedPaths == {InDir, FileIn}

\* NewFileWatcher
NewFileWatcher ==
    [pc |-> "run", running |-> FALSE, loops |-> 0, started |-> 0,
     doneClosed |-> FALSE, watcherClosed |-> FALSE,
     callbacks |-> [p \in WatchedPaths |-> 0], handled |-> <<>>, log |-> <<>>,
     watched |-> {}]

FwRest == UNCHANGED <<files, dirs, unreadable, hdr, rot, job, sd, kc, pend>>

FwCallable == fw.pc = "run" /\ Len(fw.log) < MaxCalls

FwReturn(w, op, err) == [w EXCEPT !.log = Append(@, [op |-> op, err |-> err])]

\* OnEvent: one more callback for path
OnEvent(path) ==
    /\ fw.pc = "run"
    /\ fw.callbacks[InDir] + fw.callbacks[FileIn] < MaxCallbacks
    /\ fw' = [fw EXCEPT !.callbacks[path] = @ + 1]
    /\ FwRest

\* a Start that does not look at running
StartUnchecked ==
    /\ FwCallable
    /\ fw' = FwReturn([fw EXCEPT !.running = TRUE, !.loops = @ + 1,
                                 !.started = @ + 1], "start", "")
    /\ FwRest

\* Start
Start ==
    /\ FwCallable
    /\ fw' = IF fw.running
             THEN FwReturn(fw, "start", "watcher is already running")
             ELSE FwReturn([fw EXCEPT !.running = TRUE, !.loops = @ + 1,
                                      !.started = @ + 1], "start", "")
    /\ FwRest

\* Stop; close(fw.done) on a channel that is closed already panics
Stop(closeOK) ==
    /\ FwCallable
    /\ fw' = IF ~fw.running THEN FwReturn(fw, "stop", "")
             ELSE IF fw.doneClosed
             THEN [fw EXCEPT !.running = FALSE, !.pc = "crashed"]
             ELSE FwReturn([fw EXCEPT !.running = FALSE, !.doneClosed = TRUE,
                                      !.watcherClosed = TRUE],
                           "stop", IF closeOK THEN "" ELSE "close failed")
    /\ FwRest

\* AddPath: a directory is added with all its subdirectories, a file alone
AddPath(path) ==
    /\ fw.pc = "run"
    /\ ~fw.watcherClosed
    /\ path \in dirs \cup DOMAIN files
    /\ fw' = [fw EXCEPT !.watched =
                 IF path \in dirs THEN @ \cup {d \in dirs : HasPrefix(d, path)}
                 ELSE @ \cup {path}]
    /\ FwRest

\* the callbacks handleEvent calls for an event named name, counted by the
\* path they were registered for: fw.callbacks[event.Name], then
\* fw.callbacks[filepath.Dir(event.Name)]
handleEvent(w, name) ==
    [p \in WatchedPaths |-> (IF p = name THEN w.callbacks[p] ELSE 0)
                             + (IF p = Dir(name) THEN w.callbacks[p] ELSE 0)]

\* the event names the watcher can deliver: a watched path, an entry of a
\* watched directory
Delivered(w, name) == name \in w.watched \/ Dir(name) \in w.watched

\* watchLoop receives an event and handleEvent calls the callbacks of the
\* event's name and of its directory
LoopEvent(name) ==
    /\ fw.pc = "run"
    /\ fw.loops > 0
    /\ ~fw.watcherClosed
    /\ Delivered(fw, name)
    /\ Len(fw.handled) < MaxEvents
    /\ fw' = [fw EXCEPT !.handled = Append(@,
                 [name |-> name,
                  registered |-> fw.callbacks,
                  invoked |-> handleEvent(fw, name),
                  calls |-> handleEvent(fw, name)[InDir]
                            + handleEvent(fw, name)[FileIn]])]
    /\ FwRest

\* watchLoop returns: fw.done or the watcher's channels are closed
LoopExit ==
    /\ fw.pc = "run"
    /\ fw.loops > 0
    /\ fw.doneClosed \/ fw.watcherClosed
    /\ fw' = [fw EXCEPT !.loops = @ - 1]
    /\ FwRest

InitWatcher ==
    /\ files = Tree(InDir, <<Hi, Absent, Absent>>)
    /\ dirs = {InDir}
    /\ unreadable = {}
    /\ HdrInit
    /\ rot = RotIdle
    /\ job = JobIdle
    /\ sd = SdIdle /\ kc = KcIdle /\ pend = PendIdle
    /\ fw = [NewFileWatcher EXCEPT !.watched = WatchedPaths]

WatcherNext ==
    \/ \E path \in WatchedPaths : OnEvent(path)
    \/ Start
    \/ \E closeOK \in BOOLEAN : Stop(closeOK)
    \/ \E name \in WatchedPaths : LoopEvent(name)
    \/ LoopExit

SpecWatcher == InitWatcher /\ [][WatcherNext]_vars

(***************************************************************************)
(* The FileWatcher on a directory tree with a nested subdirectory: AddPath *)
(* and OnEvent as runWatch calls them, and events for the files of the     *)
(* tree.                                                                   *)
(***************************************************************************)
FileNested == Join(InDir, <<NameSub, NameC>>)

\* the names of the events of the tree
TreeEventNames == {FileIn, FileNested}

InitWatchTree ==
    /\ files = Tree(InDir, <<Hi, Absent, Hi>>)
    /\ dirs = TreeDirs(files, InDir)
    /\ unreadable = {}
    /\ HdrInit
    /\ rot = RotIdle
    /\ job = JobIdle
    /\ sd = SdIdle /\ kc = KcIdle /\ pend = PendIdle
    /\ fw = NewFileWatcher

WatchTreeNext ==
    \/ \E path \in WatchedPaths : AddPath(path)
    \/ \E path \in WatchedPaths : OnEvent(path)
    \/ Start
    \/ \E closeOK \in BOOLEAN : Stop(closeOK)
    \/ \E name \in TreeEventNames : LoopEvent(name)
    \/ LoopExit

SpecWatchTree == InitWatchTree /\ [][WatchTreeNext]_vars

(***************************************************************************)
(* decryptDirectory of the command line (cli/decrypt.go): a count of the   *)
(* .nokvault files, then a walk whose callback derives the key of each     *)
(* container from the password and the container's salt.                   *)
(***************************************************************************)
\* what stands under "enc" for a relative path: nothing, a container of "Hi",
\* a container whose tag was changed, a .nokvault file that is no container,
\* or a file that is no .nokvault file
EntryKinds == {"absent", "good", "tampered", "garbage", "plain"}

\* the container encryptFileWithMetadata writes for "Hi" at relative path rel
GoodContainer(rel) ==
    encryptFileWithMetadata([p \in {Join(InDir, rel)} |-> Hi], {InDir, EncDir},
                            Join(InDir, rel), Join(EncDir, AddExt(rel, NokvaultExt)),
                            DirKey, DirSalt, FALSE,
                            CHOOSE n \in Nonces : TRUE).files[
                                Join(EncDir, AddExt(rel, NokvaultExt))]

EntryPath(rel, kind) ==
    IF kind = "plain" THEN Join(EncDir, rel)
    ELSE Join(EncDir, AddExt(rel, NokvaultExt))

EntryBytes(rel, kind) ==
    CASE kind = "good" -> GoodContainer(rel)
      [] kind = "tampered" ->
            LET good == GoodContainer(rel)
            IN  [good EXCEPT ![Len(good)] = (@ + 1) % 256]
      [] kind = "garbage" -> <<1, 2, 3>>
      [] kind = "plain" -> Hi

\* the tree under "enc" for a choice of kinds
CliTree(kinds) ==
    [p \in { EntryPath(RelPaths[i], kinds[i]) :
                i \in {k \in DOMAIN RelPaths : kinds[k] # "absent"} }
        |-> LET i == CHOOSE k \in DOMAIN RelPaths :
                        kinds[k] # "absent" /\ EntryPath(RelPaths[k], kinds[k]) = p
            IN  EntryBytes(RelPaths[i], kinds[i])]

\* the return of decryptDirectory after the walk
CliReport(j) ==
    IF Len(j.failedFiles) > 0
    THEN [j EXCEPT !.pc = "done",
                   !.err = "directory decryption completed with errors",
                   !.errCount = Ptr([failed |-> Len(j.failedFiles),
                                     total |-> j.totalFiles])]
    ELSE IF j.successCount = 0 /\ j.totalFiles > 0
    THEN [j EXCEPT !.pc = "done", !.err = "failed to decrypt any files"]
    ELSE [j EXCEPT !.pc = "done"]

\* what Walk does after the callback returned nil with rest left to visit
CliContinue(j, rest) ==
    IF rest = <<>> THEN CliReport([j EXCEPT !.todo = rest])
    ELSE [j EXCEPT !.todo = rest]

\* a callback that ends the walk at the first failure
CliFailedAbort(j, path, relPath, rest) ==
    CliReport([j EXCEPT !.progress = @ + 1,
                        !.failedFiles = Append(@, relPath),
                        !.visited = Append(@, [path |-> path, ok |-> FALSE]),
                        !.todo = <<>>])

\* the callback's failure branches: progressBar.Increment(1), failedFiles =
\* append(failedFiles, relPath), return nil
CliFailed(j, path, relPath, rest) ==
    CliContinue([j EXCEPT !.progress = @ + 1,
                          !.failedFiles = Append(@, relPath),
                          !.visited = Append(@, [path |-> path, ok |-> FALSE])],
                rest)

\* the callback's last branch: successCount++, progressBar.Increment(1)
CliSucceeded(j, path, rest) ==
    CliContinue([j EXCEPT !.progress = @ + 1,
                          !.successCount = @ + 1,
                          !.visited = Append(@, [path |-> path, ok |-> TRUE])],
                rest)

\* decryptDirectory up to the second walk
CliDecryptStart(inputPath, outputPath, password) ==
    /\ job.pc = "idle"
    /\ UNCHANGED <<files, dirs, unreadable, hdr, rot, sd, kc, fw, pend>>
    /\ LET c == CountContainers(files, dirs, inputPath)
           j == [pc |-> "walk", op |-> "cliDecrypt", inputDir |-> inputPath,
                 outputDir |-> outputPath, password |-> password,
                 todo |-> <<inputPath>>, totalFiles |-> c.count,
                 progress |-> 0, successCount |-> 0, failedFiles |-> <<>>,
                 visited |-> <<>>, err |-> "", errCount |-> Nil,
                 enc |-> job.enc, tampered |-> job.tampered]
       IN  IF c.err # ""
           THEN job' = [j EXCEPT !.pc = "done", !.err = "failed to count files"]
           ELSE IF c.count = 0 THEN job' = [j EXCEPT !.pc = "done"]
           ELSE job' = j

\* one callback of the second walk of decryptDirectory
CliDecryptStep ==
    /\ job.pc = "walk" /\ job.op = "cliDecrypt"
    /\ UNCHANGED <<unreadable, hdr, rot, sd, kc, fw, pend>>
    /\ LET path == Head(job.todo)
           rest == Tail(job.todo)
       IN  IF ~Exists(path)
           THEN /\ job' = CliContinue(job, rest)
                /\ UNCHANGED <<files, dirs>>
           ELSE IF path \in dirs
           THEN /\ job' = CliContinue(job, ChildPaths(files, dirs, path) \o rest)
                /\ UNCHANGED <<files, dirs>>
           ELSE IF Ext(Base(path)) # NokvaultExt
           THEN /\ job' = CliContinue(job, rest)
                /\ UNCHANGED <<files, dirs>>
           ELSE
           LET relPath        == GetRelativePath(job.inputDir, path)
               outputFilePath == Join(job.outputDir, CutExt(relPath, NokvaultExt))
           IN  IF EnsureDirectoryErr(files, Dir(outputFilePath)) # ""
               THEN /\ job' = CliFailed(job, path, relPath, rest)
                    /\ UNCHANGED <<files, dirs>>
               ELSE
               LET ds == EnsureDirectory(dirs, Dir(outputFilePath))
                   h  == ReadHeaderWithMetadata(files[path])
                   k  == DeriveKeyFromPasswordAndSalt(job.password,
                                                      Deref(h.header).Salt)
                   r  == decryptSingleFile(files, ds, path, outputFilePath, k.key)
               IN  /\ dirs' = ds
                   /\ IF path \in unreadable \/ h.err # "" \/ k.err # ""
                      THEN /\ job' = CliFailed(job, path, relPath, rest)
                           /\ UNCHANGED files
                      ELSE IF r.err # ""
                      THEN /\ job' = CliFailed(job, path, relPath, rest)
                           /\ files' = r.files
                      ELSE /\ job' = CliSucceeded(job, path, rest)
                           /\ files' = r.files

\* a tree of entries under "enc", at most one of them unreadable, and
\* possibly a directory where the output of "a.txt" goes
InitCli ==
    /\ \E kinds \in [DOMAIN RelPaths -> EntryKinds], blocked \in BOOLEAN,
          u \in SUBSET { EntryPath(RelPaths[i], "good") : i \in DOMAIN RelPaths } :
          /\ Cardinality(u) <= 1
          /\ unreadable = u
          /\ files = CliTree(kinds)
          /\ u \subseteq DOMAIN files
          /\ dirs = TreeDirs(files, EncDir) \cup
                    (IF blocked THEN {DecDir, FileDec} ELSE {})
    /\ HdrInit
    /\ rot = RotIdle
    /\ job = JobIdle
    /\ RestIdle

CliNext ==
    \/ \E password \in Passwords : CliDecryptStart(EncDir, DecDir, password)
    \/ CliDecryptStep

SpecCli == InitCli /\ [][CliNext]_vars

(***************************************************************************)
(* ShouldCompress and the compression step of the encrypt pipelines, on    *)
(* payloads around the 1024-byte threshold and payloads that begin like a  *)
(* gzip stream.                                                            *)
(***************************************************************************)
CompressContents ==
    { <<>>, <<31>>, <<31, 139>>, Hi, <<31, 139, 8>>, <<139, 31, 8>>,
      Rep(65, MinCompressSize - 1), Rep(65, MinCompressSize), Big,
      <<31, 139>> \o Rep(65, MinCompressSize - 2),
      <<31>> \o Rep(65, MinCompressSize - 1) }

\* the thresholds ShouldCompress is called with
MinSizes == {0, 1, 2, 3, MinCompressSize - 1, MinCompressSize, MinCompressSize + 1}

\* a call of ShouldCompress on the content of "in/a.txt"
ShouldCompressCall(minSize) ==
    /\ job.pc = "idle"
    /\ job' = [pc |-> "done", op |-> "ShouldCompress", minSize |-> minSize,
               result |-> ShouldCompress(files[FileIn], minSize),
               enc |-> Nil, tampered |-> {}]
    /\ UNCHANGED <<files, dirs, unreadable, hdr, rot, sd, kc, fw, pend>>

\* encryptFileWithMetadata of a DirectoryEncryptor with compression on or off
CompressEncryptCore(compress, nonce) ==
    /\ job.pc = "idle"
    /\ LET r == encryptFileWithMetadata(files, dirs, FileIn, FileEnc, DirKey,
                                        DirSalt, compress, nonce)
       IN  /\ files' = r.files
           /\ job' = [pc |-> "done", op |-> "encrypt", by |-> "core",
                      compress |-> compress,
                      err |-> r.err, enc |-> Nil, tampered |-> {}]
    /\ UNCHANGED <<dirs, unreadable, hdr, rot, sd, kc, fw, pend>>

\* encryptFileWithCompression of the command line
CompressEncryptCLI(compress, nonce) ==
    /\ job.pc = "idle"
    /\ LET r == encryptFileWithCompression(files, dirs, FileIn, FileEnc, DirKey,
                                           DirSalt, compress, nonce)
       IN  /\ files' = r.files
           /\ job' = [pc |-> "done", op |-> "encrypt", by |-> "cli",
                      compress |-> compress,
                      err |-> r.err, enc |-> Nil, tampered |-> {}]
    /\ UNCHANGED <<dirs, unreadable, hdr, rot, sd, kc, fw, pend>>

InitCompress ==
    /\ unreadable = {}
    /\ \E content \in CompressContents : files = [p \in {FileIn} |-> content]
    /\ dirs = {InDir, EncDir}
    /\ HdrInit
    /\ rot = RotIdle
    /\ job = JobIdle
    /\ RestIdle

CompressNext ==
    \/ \E minSize \in MinSizes : ShouldCompressCall(minSize)
    \/ \E compress \in BOOLEAN, nonce \in Nonces : CompressEncryptCore(compress, nonce)
    \/ \E compress \in BOOLEAN, nonce \in Nonces : CompressEncryptCLI(compress, nonce)

SpecCompress == InitCompress /\ [][CompressNext]_vars

(***************************************************************************)
(* The directory operations with the output directory inside the input     *)
(* directory: "in" is encrypted into "enc" or into "in/z", and the result  *)
(* is decrypted into "dec" or into a directory "dec" inside it.            *)
(***************************************************************************)
\* "in/z"
InsideDir == Join(InDir, << <<122>> >>)

InitInside ==
    /\ \E assign \in [DOMAIN RelPaths -> FaultContents \cup {Absent}] :
          /\ files = Tree(InDir, assign)
          /\ dirs = TreeDirs(files, InDir)
    /\ unreadable = {}
    /\ HdrInit
    /\ rot = RotIdle
    /\ job = JobIdle
    /\ RestIdle

InsideNext ==
    \/ \E outputDir \in {EncDir, InsideDir} :
          EncryptDirectoryStart(InDir, outputDir, DirKey, DirSalt, FALSE)
    \/ \E nonce \in DirNonces : EncryptStep(nonce)
    \/ \E inputDir \in {EncDir, InsideDir}, inside \in BOOLEAN :
          DecryptDirectoryStart(inputDir,
                                IF inside THEN Join(inputDir, DecDir) ELSE DecDir,
                                DirKey)
    \/ DecryptStep

SpecInside == InitInside /\ [][InsideNext]_vars

(***************************************************************************)
(* Specifications of the header scenario and of key rotation.              *)
(***************************************************************************)
InitHeader ==
    /\ files = NoFiles /\ dirs = {} /\ unreadable = {}
    /\ HdrInit
    /\ rot = RotIdle
    /\ job = JobIdle
    /\ RestIdle

SpecHeader == InitHeader /\ [][HdrNext]_vars

\* the path holds a container made by an encrypt pipeline, a file that is no
\* container, or nothing
InitRotate ==
    /\ dirs = {} /\ unreadable = {}
    /\ hdr = [buf |-> <<>>, damage |-> 0, written |-> Nil, read |-> Nil]
    /\ job = JobIdle
    /\ RestIdle
    /\ \/ \E pt \in RotPlaintexts, pw \in Passwords, salt \in Salts,
            metadata \in SampleMetadata :
              /\ files = [q \in {RotPath} |->
                            Container(salt, metadata,
                               EncryptData(pt, DeriveKey(pw, salt).key,
                                           CHOOSE n \in Nonces : TRUE).ciphertext)]
              /\ rot = [pc |-> "idle", plain |-> Ptr(pt), truePassword |-> pw]
       \/ /\ files = [q \in {RotPath} |-> InvalidBuf]
          /\ rot = RotIdle
       \/ /\ files = NoFiles
          /\ rot = RotIdle

SpecRotate == InitRotate /\ [][RotNext]_vars

(***************************************************************************)
(* The functions of the command line that derive a key: runRotateKey (the  *)
(* rotation above), decryptFile, runEncrypt on a file and the per-file     *)
(* step of decryptDirectory.  Each result holds, in key, what the key      *)
(* buffer holds when the function has returned: Nil when no key was        *)
(* derived, else the buffer after the deferred utils.ZeroizeKey.           *)
(***************************************************************************)
\* "v", where decryptFile puts the plaintext of "v.nokvault"
RotOut == CutExt(RotPath, NokvaultExt)

\* "dec/v", where decryptDirectory puts it
RotDirOut == Join(DecDir, RotOut)

\* "v.nokvault.nokvault", where runEncrypt puts the container of "v.nokvault"
RotEncOut == AddExt(RotPath, NokvaultExt)

\* decryptFile
decryptFile(fs, ds, inputPath, outputPath, password, writeOK) ==
    IF inputPath \notin DOMAIN fs \/ inputPath \in unreadable
    THEN [err |-> "failed to open input file", files |-> fs, key |-> Nil]
    ELSE
    LET h == ReadHeaderWithMetadata(fs[inputPath])
    IN  IF h.err # "" THEN [err |-> "INVALID_FORMAT", files |-> fs, key |-> Nil]
        ELSE
        LET header == Deref(h.header)
            k      == DeriveKeyFromPasswordAndSalt(password, header.Salt)
            d      == DecryptData(ReadFromOffset(fs[inputPath], header.DataOffset),
                                  k.key)
            key    == Ptr(ZeroizeKey(k.key))
        IN  IF k.err # "" THEN [err |-> k.err, files |-> fs, key |-> Nil]
            ELSE IF d.err # ""
            THEN [err |-> "DECRYPTION_FAILED", files |-> fs, key |-> key]
            ELSE IF outputPath \in ds \/ ~writeOK
            THEN [err |-> "failed to write output file", files |-> fs, key |-> key]
            ELSE [err |-> "",
                  files |-> WithFile(fs, outputPath, MaybeDecompress(d.plaintext)),
                  key |-> key]

\* runEncrypt on a path that is no directory
runEncrypt(fs, ds, inputPath, outputPath, password, salt, compress, nonce) ==
    IF ~(inputPath \in DOMAIN fs \/ inputPath \in ds)
    THEN [err |-> "INVALID_PATH", files |-> fs, key |-> Nil]
    ELSE
    LET k == DeriveKeyFromPassword(password, salt)
        r == encryptFileWithCompression(fs, ds, inputPath, outputPath, k.key, k.salt,
                                        compress, nonce)
    IN  IF k.err # "" THEN [err |-> "KEY_DERIVATION", files |-> fs, key |-> Nil]
        ELSE [err |-> r.err, files |-> r.files, key |-> Ptr(ZeroizeKey(k.key))]

\* the walk callback of decryptDirectory on one .nokvault entry, from os.Open
decryptDirectoryEntry(fs, ds, path, outputFilePath, password) ==
    IF path \notin DOMAIN fs \/ path \in unreadable
    THEN [err |-> "failed to open file", files |-> fs, key |-> Nil]
    ELSE
    LET h == ReadHeaderWithMetadata(fs[path])
    IN  IF h.err # "" THEN [err |-> "failed to read header", files |-> fs, key |-> Nil]
        ELSE
        LET k == DeriveKeyFromPasswordAndSalt(password, Deref(h.header).Salt)
            r == decryptSingleFile(fs, ds, path, outputFilePath, k.key)
        IN  IF k.err # "" THEN [err |-> "failed to derive key", files |-> fs,
                                key |-> Nil]
            ELSE [err |-> r.err, files |-> r.files, key |-> Ptr(ZeroizeKey(k.key))]

\* a command is run when no rotation is under way
KeyOp(op, r) ==
    /\ job.pc = "idle"
    /\ rot.pc \in {"idle", "done"}
    /\ files' = r.files
    /\ job' = [pc |-> "done", op |-> op, err |-> r.err, key |-> r.key,
               enc |-> Nil, tampered |-> {}]

RunDecryptFile(password, writeOK) ==
    /\ KeyOp("decryptFile",
             decryptFile(files, dirs, RotPath, RotOut, password, writeOK))
    /\ UNCHANGED <<dirs, unreadable, hdr, rot, sd, kc, fw, pend>>

RunEncrypt(password, salt, compress, nonce) ==
    /\ KeyOp("runEncrypt",
             runEncrypt(files, dirs, RotPath, RotEncOut, password, salt, compress,
                        nonce))
    /\ UNCHANGED <<dirs, unreadable, hdr, rot, sd, kc, fw, pend>>

RunDecryptDirectoryEntry(password) ==
    /\ KeyOp("decryptDirectory",
             decryptDirectoryEntry(files, EnsureDirectory(dirs, DecDir), RotPath,
                                   RotDirOut, password))
    /\ dirs' = EnsureDirectory(dirs, DecDir)
    /\ UNCHANGED <<unreadable, hdr, rot, sd, kc, fw, pend>>

\* the rotation with one salt and one nonce, and the three commands
KeysNext ==
    \/ \E oldPassword \in Passwords, newPassword \in Passwords, nonce \in DirNonces :
           RotateBegin(oldPassword, newPassword, DirSalt, DirSalt, nonce)
    \/ \E ok \in BOOLEAN : RotateCreateTemp(ok)
    \/ \E ok \in BOOLEAN, n \in {0, 5} : RotateWriteHeader(ok, n)
    \/ \E ok \in BOOLEAN, n \in {0, 5} : RotateWriteData(ok, n)
    \/ \E ok \in BOOLEAN : RotateRename(ok)
    \/ \E password \in Passwords, writeOK \in BOOLEAN :
          RunDecryptFile(password, writeOK)
    \/ \E password \in Passwords, compress \in BOOLEAN, nonce \in DirNonces :
          RunEncrypt(password, DirSalt, compress, nonce)
    \/ \E password \in Passwords : RunDecryptDirectoryEntry(password)

SpecKeys == InitRotate /\ [][KeysNext]_vars

(***************************************************************************)
(* Opening a container with a password (decryptFile, lines 101-146): read  *)
(* the header, derive the key from the stored salt, read the ciphertext    *)
(* from the data offset, decrypt.                                          *)
(***************************************************************************)
OpenContainer(bytes, password) ==
    LET h == ReadHeaderWithMetadata(bytes)
    IN  IF h.err # "" THEN [err |-> "INVALID_FORMAT", plaintext |-> <<>>]
        ELSE LET header == Deref(h.header)
                 k      == DeriveKeyFromPasswordAndSalt(password, header.Salt)
             IN  IF k.err # "" THEN [err |-> k.err, plaintext |-> <<>>]
                 ELSE DecryptData(ReadFromOffset(bytes, header.DataOffset), k.key)

(***************************************************************************)
(* Claims about the container format.                                      *)
(***************************************************************************)
\* the layout a written header has when its metadata block starts at byte
\* offset metaAt: magic 8 bytes at 0, version 2 at 8, salt 16 at 10,
\* metadataSize 4 at 26, dataOffset 8 at 30, dataOffset = metaAt + metadataSize
LayoutHolds(w, metaAt) ==
    LET json == IF w.metadata = Nil THEN <<>> ELSE MarshalJSON(Deref(w.metadata))
        out  == w.out
    IN  /\ Len(out) >= 38
        /\ SubSeq(out, 1, 8) = <<78, 79, 75, 86, 65, 85, 76, 84>>
        /\ SubSeq(out, 9, 10) = <<1, 0>>
        /\ SubSeq(out, 11, 26) = w.salt
        /\ FromLE(SubSeq(out, 27, 30)) = Len(json)
        /\ FromLE(SubSeq(out, 31, 38)) = metaAt + Len(json)
        /\ Len(out) = metaAt + Len(json)
        /\ SubSeq(out, metaAt + 1, metaAt + Len(json)) = json

\* C9 as stated: in every header WriteHeader writes, the fixed fields are at
\* offsets 0, 8, 10, 26 and 30, the metadata block begins at byte offset 30 and
\* the stored dataOffset is 30 + metadataSize.
C9_LayoutMetadataAt30 ==
    (hdr.written # Nil /\ Deref(hdr.written).err = "")
        => LayoutHolds(Deref(hdr.written), 30)

\* C9 amended: the fixed fields are at offsets 0, 8, 10, 26 and 30, the fixed
\* header is 38 bytes, the metadata block begins at byte offset 38 and the
\* stored dataOffset is 38 + metadataSize.
C9_LayoutMetadataAt38 ==
    (hdr.written # Nil /\ Deref(hdr.written).err = "")
        => LayoutHolds(Deref(hdr.written), 38)

\* C9 witness: WriteHeader has written a header with a metadata block
C9_Witness ==
    /\ hdr.written # Nil
    /\ Deref(hdr.written).err = ""
    /\ Deref(hdr.written).metadata # Nil

\* C10: ReadHeader and ReadHeaderWithMetadata return an error for every input
\* that does not begin with the 8-byte magic (shorter inputs included) and for
\* every input with the magic whose version is not 1; a header is returned
\* only when both checks pass.
C10_ReadHeaderRejects ==
    hdr.read # Nil =>
        LET rd        == Deref(hdr.read)
            magicOK   == HasPrefix(rd.input, <<78, 79, 75, 86, 65, 85, 76, 84>>)
            versionOK == Len(rd.input) >= 10 /\ SubSeq(rd.input, 9, 10) = <<1, 0>>
        IN  /\ ~magicOK => (rd.r.err # "" /\ rd.rm.err # "")
            /\ (magicOK /\ ~versionOK) => (rd.r.err # "" /\ rd.rm.err # "")
            /\ rd.r.header # NoHeader => (rd.r.err = "" /\ magicOK /\ versionOK)
            /\ rd.rm.header # NoHeader => (rd.rm.err = "" /\ magicOK /\ versionOK)
            /\ rd.r.err = "" => rd.r.header # NoHeader

\* C10 witness: a buffer with the magic and another version was read and
\* rejected
C10_Witness ==
    /\ hdr.read # Nil
    /\ Len(Deref(hdr.read).input) >= 38
    /\ HasPrefix(Deref(hdr.read).input, <<78, 79, 75, 86, 65, 85, 76, 84>>)
    /\ SubSeq(Deref(hdr.read).input, 9, 10) # <<1, 0>>
    /\ Deref(hdr.read).r.err # ""

(***************************************************************************)
(* Claims about key rotation.                                              *)
(***************************************************************************)
RotSucceeded == rot.pc = "done" /\ rot.err = ""

\* C1 as stated: after a successful rotation the container decrypts to the
\* original plaintext with the key derived from the new password and the salt
\* stored in the new header, and no longer with the key derived from the old
\* password (when the two passwords differ).
C1_NewPasswordOpensRotated ==
    RotSucceeded =>
        LET new == OpenContainer(files[RotPath], rot.newPassword)
            old == OpenContainer(files[RotPath], rot.oldPassword)
        IN  /\ new.err = ""
            /\ new.plaintext = Deref(rot.plain)
            /\ rot.oldPassword # rot.newPassword => old.err # ""

\* C2: whenever rotation fails, at any step, the original container's bytes
\* are unchanged and it still decrypts under the old password; the original
\* is only ever replaced by the completely written temporary file.
C2_FailedRotationKeepsOriginal ==
    (rot.pc # "idle" /\ rot.orig # Nil) =>
        /\ RotPath \in DOMAIN files
        /\ files[RotPath] # Deref(rot.orig) =>
              /\ RotSucceeded
              /\ files[RotPath] =
                   Container(rot.newSalt, rot.metadata, rot.newCiphertext)
        /\ (~RotSucceeded /\ rot.plain # Nil) =>
              LET o == OpenContainer(files[RotPath], rot.truePassword)
              IN  o.err = "" /\ o.plaintext = Deref(rot.plain)

\* C2 witness: a rotation whose rename failed has returned
C2_Witness ==
    /\ rot.pc = "done"
    /\ rot.err = "failed to replace file"
    /\ rot.plain # Nil
    /\ files[RotPath] = Deref(rot.orig)

(***************************************************************************)
(* Claims about the directory operations.                                  *)
(***************************************************************************)
JobDone == job.pc = "done"

\* the entries of the tree the operation is to process: every file on
\* encrypt, every .nokvault file on decrypt
Eligible ==
    IF job.op = "encrypt" THEN FilesUnder(files, job.inputDir)
    ELSE { p \in FilesUnder(files, job.inputDir) : IsContainerName(p) }

Attempted == { job.attempted[i].path : i \in DOMAIN job.attempted }

FailedEntries == { i \in DOMAIN job.attempted : job.attempted[i].err # "" }

\* C3 as stated: when processing one entry fails the walk continues, so when
\* EncryptDirectory or DecryptDirectory has returned, every eligible entry of
\* the tree has been processed.
C3_WalkContinuesAfterFailure ==
    JobDone => \A p \in Eligible : p \in Attempted

\* C4 as stated: when the walk is over the reported outcome is failure of the
\* whole operation if every entry failed, success if none failed, and, if some
\* but not all failed, a partial success (not a failure of the whole
\* operation) that lists the relative paths that failed.
C4_ThreeWayOutcome ==
    (JobDone /\ job.attempted # <<>>) =>
        LET n == Len(job.attempted)
        IN  /\ Cardinality(FailedEntries) = n => job.err # ""
            /\ FailedEntries = {} => job.err = ""
            /\ (FailedEntries # {} /\ Cardinality(FailedEntries) < n) =>
                  /\ job.err = ""
                  /\ { job.attempted[i].rel : i \in FailedEntries } = {job.errPath}

\* C5 as stated: the progress callback is invoked exactly once for every
\* eligible entry, whether the entry succeeds or fails, current goes 1, 2, ...
\* and is equal to total on the last call.
C5_ProgressOncePerEntry ==
    JobDone =>
        /\ Len(job.progress) = Cardinality(Eligible)
        /\ \A i \in DOMAIN job.progress :
              /\ job.progress[i].current = i
              /\ job.progress[i].total = job.totalFiles
        /\ job.progress # <<>> =>
              job.progress[Len(job.progress)].current = job.totalFiles

\* C6 as stated: EncryptDirectory into "enc", then DecryptDirectory of "enc"
\* with the same key, gives for every input file at relative path p a file at
\* relative path p with the same bytes, whatever the content (gzip magic or
\* not, short or long) and whether compression is on or off.
C6_DirectoryRoundTrip ==
    (JobDone /\ job.op = "decrypt" /\ job.enc # Nil) =>
        \A p \in FilesUnder(files, InDir) :
            LET out == Join(DecDir, GetRelativePath(InDir, p))
            IN  out \in DOMAIN files /\ files[out] = files[p]

\* C7: decrypting a container with another key than it was encrypted with, or
\* after a change of its ciphertext, returns an error, and the file at the
\* output path is as it was before (absent, or with its old bytes); every
\* change of one byte of a ciphertext makes DecryptData fail.
C7_WrongKeyOrTamperedFails ==
    (job.pc # "idle" /\ job.op = "decrypt" /\ job.enc # Nil) =>
        LET enc == Deref(job.enc)
        IN  /\ \A i \in DOMAIN job.attempted :
                  LET a == job.attempted[i]
                  IN  (job.key # enc.key \/ a.path \in job.tampered) =>
                          /\ a.err # ""
                          /\ FileAt(files, a.out) = a.before
            /\ \A p \in DOMAIN enc.written :
                  LET ct == enc.written[p]
                  IN  /\ DecryptData(ct, WrongKey).err # ""
                      /\ \A k \in 1..Len(ct), d \in {1, 128} :
                            DecryptData([ct EXCEPT ![k] = (@ + d) % 256],
                                        enc.key).err # ""

\* C7 witness: a changed container was decrypted where an older output file
\* stood, and the decryption returned an error
C7_Witness ==
    /\ job.pc = "done" /\ job.op = "decrypt"
    /\ \E i \in DOMAIN job.attempted :
          /\ job.attempted[i].path \in job.tampered
          /\ job.attempted[i].before # Nil
          /\ job.attempted[i].err # ""

\* C8: in every container the encrypt pipeline writes (WriteHeader, the
\* metadata, the ciphertext) the header's dataOffset is the number of bytes
\* before the ciphertext, the fixed header size plus metadataSize, and reading
\* from dataOffset to the end gives the ciphertext that was written; the same
\* for a header written with and without metadata.
C8_DataOffsetPrecedesCiphertext ==
    (job.pc # "idle" /\ job.op = "encrypt") =>
        \A p \in DOMAIN job.written :
            /\ p \in DOMAIN files
            /\ \A bytes \in {files[p]} \cup
                     { Container(job.salt, m, job.written[p]) : m \in SampleMetadata } :
                  LET h == ReadHeader(bytes)
                  IN  /\ h.err = ""
                      /\ Deref(h.header).DataOffset
                            = HeaderSize + Deref(h.header).MetadataSize
                      /\ Deref(h.header).DataOffset
                            = Len(bytes) - Len(job.written[p])
                      /\ ReadFromOffset(bytes, Deref(h.header).DataOffset)
                            = job.written[p]

\* C8 witness: EncryptDirectory has written three containers
C8_Witness ==
    /\ job.pc = "done" /\ job.op = "encrypt" /\ job.err = ""
    /\ Cardinality(DOMAIN job.written) = 3

(***************************************************************************)
(* Claims about the single-file pipelines.                                 *)
(***************************************************************************)
\* the container's header is valid and its dataOffset is beyond the end of
\* the file, or is not header size plus metadataSize
OffsetInconsistent(bytes) ==
    LET h == ReadHeader(bytes)
    IN  /\ h.err = ""
        /\ \/ Deref(h.header).DataOffset > Len(bytes)
           \/ Deref(h.header).DataOffset # HeaderSize + Deref(h.header).MetadataSize

\* C11 as stated: decrypting a container with a valid magic and version whose
\* dataOffset is greater than the file's length, or otherwise inconsistent,
\* returns an error and never crashes, in decryptFileWithMetadata and in
\* decryptSingleFile.
C11_BadOffsetReturnsError ==
    (/\ job.pc \in {"done", "crashed"}
     /\ job.op \in {"decryptFileWithMetadata", "decryptSingleFile"}
     /\ FileEnc \in DOMAIN files
     /\ OffsetInconsistent(files[FileEnc]))
        => (job.pc = "done" /\ job.err # "")

\* C12 as stated: when the salt is not 16 bytes or the key is not 32 bytes,
\* encrypting a file fails and the output path is as it was: no file, empty
\* or partial, is created or left there.
C12_InvalidInputLeavesNoOutput ==
    (/\ job.pc = "done"
     /\ job.op \in {"encryptFileWithMetadata", "encryptFileWithCompression"}
     /\ (Len(job.salt) # 16 \/ Len(job.key) # 32))
        => (job.err # "" /\ FileAt(files, job.out) = job.before)

(***************************************************************************)
(* Claims about SecureDeleteService.                                       *)
(***************************************************************************)
\* the k-th file operation of a Delete of a non-empty file: for pass i from
\* 0, seek to 0, write of a full-length pattern chosen by i modulo 3, sync;
\* after the last pass, the unlink
ExpectedDeleteStep(k, entry) ==
    LET i == (k - 1) \div 3
    IN  IF k = 3 * sd.passes + 1 THEN entry.op = "remove"
        ELSE /\ k <= 3 * sd.passes
             /\ entry.pass = i
             /\ CASE (k - 1) % 3 = 0 -> entry.op = "seek" /\ entry.offset = 0
                  [] (k - 1) % 3 = 1 ->
                        /\ entry.op = "write"
                        /\ Len(entry.pattern) = sd.fileSize
                        /\ i % 3 = 1 => entry.pattern = Rep(0, sd.fileSize)
                        /\ i % 3 = 2 => entry.pattern = Rep(255, sd.fileSize)
                        /\ i % 3 = 0 => entry.pattern \in RandomPatterns(sd.fileSize)
                  [] (k - 1) % 3 = 2 -> entry.op = "sync"

\* C13: on a non-empty file Delete's passes run strictly in order, pass i
\* seeking to 0, writing a full-length pattern (random, 0x00, 0xFF by i mod 3)
\* and syncing before pass i+1 starts, the unlink coming only after the last
\* sync; an empty file is unlinked with no overwrite pass.
C13_PassesInOrder ==
    sd.pc # "idle" =>
        /\ sd.fileSize > 0 =>
              \A k \in DOMAIN sd.log : ExpectedDeleteStep(k, sd.log[k])
        /\ (sd.fileSize = 0 /\ sd.existed) =>
              (sd.log = <<>> \/ sd.log = <<[op |-> "remove"]>>)

\* C13 witness: a Delete of a non-empty file with at least three passes has
\* unlinked the file
C13_Witness ==
    /\ sd.pc = "done" /\ sd.err = ""
    /\ sd.fileSize > 0 /\ sd.passes >= 3
    /\ sd.log[Len(sd.log)].op = "remove"

WritesDone == Cardinality({ k \in DOMAIN sd.log : sd.log[k].op = "write" })

\* C14: a service created with passes n makes exactly n overwrite passes on a
\* non-empty file when n >= 1, and exactly 3 when n <= 0.
C14_PassCount ==
    (sd.pc = "done" /\ sd.err = "" /\ sd.fileSize > 0) =>
        WritesDone = IF sd.requested >= 1 THEN sd.requested ELSE 3

\* C14 witness: a service created with a non-positive number of passes has
\* deleted a non-empty file
C14_Witness ==
    /\ sd.pc = "done" /\ sd.err = "" /\ sd.fileSize > 0
    /\ sd.requested <= 0
    /\ WritesDone = 3

\* C15: Delete unlinks the path only if the open, the stat and every pass
\* succeeded: on a path that does not exist it returns an error and creates
\* nothing, when a pass fails it returns an error and the file is still there,
\* and after a Delete that returned nil the path does not exist.
C15_UnlinkOnlyAfterSuccess ==
    sd.pc = "done" =>
        /\ ~sd.existed => (sd.err # "" /\ files = sd.before)
        /\ sd.err = "" => sd.filePath \notin DOMAIN files
        /\ (sd.err # "" /\ sd.existed) => sd.filePath \in DOMAIN files
        /\ sd.filePath \notin DOMAIN files =>
              (~sd.existed \/ (sd.err = "" /\ sd.pass = (IF sd.fileSize = 0
                                                         THEN 0 ELSE sd.passes)))

\* C15 witness: the second pass of a Delete failed and the Delete returned
C15_Witness ==
    /\ sd.pc = "done" /\ sd.err = "overwrite pass failed"
    /\ sd.pass = 1
    /\ sd.filePath \in DOMAIN files

(***************************************************************************)
(* Claims about KeyCache.                                                  *)
(***************************************************************************)
\* what serialized calls guarantee of the step goroutine t takes: the
\* expiry-delete of a Get removes the entry that Get read and no other, and a
\* Get that returns a key returns one no completed Clear has removed
GetStepSerialized(t) ==
    /\ (kc.th[t].pc = "getDelete" /\ kc'.th[t].pc = "idle") =>
          kc.cache[kc.th[t].id] \in {Nil, kc.th[t].cached}
    /\ (kc.th[t].pc = "getCheck" /\ kc'.th[t].pc = "idle") =>
          Deref(kc.th[t].cached).gen \notin kc.cleared

\* C16: concurrent Get, Set and Clear calls on one KeyCache are serialized:
\* the expiry-delete inside a Get never removes an entry stored by a Set that
\* ran concurrently, and a Get never returns an entry that a completed Clear
\* removed.
C16_CacheCallsSerialized ==
    [][\A t \in Threads : GetStepSerialized(t)]_vars

(***************************************************************************)
(* Claims about the watch auto-encrypt callback.                           *)
(***************************************************************************)
\* the timers of a path that are scheduled, have not fired and are not stopped
PendingTimers(filePath) ==
    { id \in DOMAIN pend.timers : /\ pend.timers[id].path = filePath
                                  /\ pend.timers[id].state = "scheduled" }

\* C17: a new write/create event for a path cancels the pending encryption of
\* that path and schedules a new one, so under every interleaving of events
\* and timer firings there is at most one pending encryption timer per path.
C17_OnePendingTimerPerPath ==
    \A filePath \in EventPaths : Cardinality(PendingTimers(filePath)) <= 1

(***************************************************************************)
(* Claims about EncryptDirectory on a missing input directory.             *)
(***************************************************************************)
\* EncryptDirectory was called on the directory that did not exist
CalledOnMissing ==
    job.pc # "idle" /\ job.op = "encrypt" /\ job.inputDir = MissingDir

\* the call on the missing directory makes no progress callback, writes no
\* container and, once it has returned, has returned an error
MissingRejected ==
    /\ job.pc = "done" => job.err # ""
    /\ job.progress = <<>>
    /\ job.written = NoFiles
    /\ \A p \in DOMAIN files : ~IsContainerName(p)

\* C18: EncryptDirectory called with an input directory that does not exist
\* returns an error, invokes the progress callback zero times and writes no
\* container.
C18_MissingInputReturnsError ==
    CalledOnMissing => MissingRejected

(***************************************************************************)
(* Claims about FileWatcher.                                               *)
(***************************************************************************)
\* the last call of the step returned err
FwReturned(op) ==
    /\ Len(fw'.log) = Len(fw.log) + 1
    /\ fw'.log[Len(fw'.log)].op = op

\* C19: Start on a watcher that is already running returns an error and does
\* not start a second watch loop, and Stop on a watcher that is not running
\* (never started, or already stopped) returns nil without effect.
C19_StartStopIdempotent ==
    [][/\ (Start /\ fw.running) =>
             /\ FwReturned("start")
             /\ fw'.log[Len(fw'.log)].err # ""
             /\ fw'.started = fw.started /\ fw'.loops = fw.loops
       /\ (\E closeOK \in BOOLEAN : Stop(closeOK) /\ ~fw.running) =>
             /\ FwReturned("stop")
             /\ fw'.log[Len(fw'.log)].err = ""
             /\ [fw' EXCEPT !.log = fw.log] = fw]_vars

\* C19 witness: Stop of a watcher never started returned nil, and after a
\* Start a second Start returned an error, a Stop stopped the watcher and a
\* second Stop returned nil
C19_Witness ==
    /\ Len(fw.log) = 4
    /\ fw.log[1] = [op |-> "start", err |-> ""]
    /\ fw.log[2] = [op |-> "start", err |-> "watcher is already running"]
    /\ fw.log[3] = [op |-> "stop", err |-> ""]
    /\ fw.log[4] = [op |-> "stop", err |-> ""]
    /\ fw.started = 1

(***************************************************************************)
(* Claims about the command line's decryptDirectory.                       *)
(***************************************************************************)
\* the .nokvault entries of the tree under the input directory
CliEntries == { q \in FilesUnder(files, job.inputDir) : IsContainerName(q) }

CliVisited == { job.visited[i].path : i \in DOMAIN job.visited }

\* C20: in the CLI decryptDirectory every .nokvault entry of the tree is
\* attempted regardless of earlier failures, each with exactly one progress
\* increment and exactly one update of successCount or failedFiles, so that at
\* the end successCount + len(failedFiles) is the number of .nokvault entries
\* visited and the returned error names the failure count when it is not zero.
C20_CliWalkAttemptsEveryEntry ==
    (job.pc # "idle" /\ job.op = "cliDecrypt") =>
        /\ job.progress = Len(job.visited)
        /\ job.successCount + Len(job.failedFiles) = Len(job.visited)
        /\ job.successCount =
              Cardinality({ i \in DOMAIN job.visited : job.visited[i].ok })
        /\ Cardinality(CliVisited) = Len(job.visited)
        /\ CliVisited \subseteq CliEntries
        /\ (job.pc = "done" /\ job.totalFiles > 0) =>
              /\ CliVisited = CliEntries
              /\ Len(job.visited) = job.totalFiles
              /\ Len(job.failedFiles) > 0 =>
                    /\ job.err # ""
                    /\ job.errCount = Ptr([failed |-> Len(job.failedFiles),
                                           total |-> job.totalFiles])
              /\ Len(job.failedFiles) = 0 => job.err = ""

\* C20 witness: a walk over three entries whose first entry failed and whose
\* later entries include a success has returned
C20_Witness ==
    /\ job.pc = "done" /\ job.op = "cliDecrypt"
    /\ Len(job.visited) = 3
    /\ ~job.visited[1].ok
    /\ job.successCount >= 1
    /\ Len(job.failedFiles) >= 1

(***************************************************************************)
(* Claims about the metadata EncryptDirectory stores.                      *)
(***************************************************************************)
\* a relative path as the string filepath.Rel returns: the names, with "/"
\* between them
RECURSIVE PathString(_)
PathString(p) ==
    IF Len(p) = 0 THEN <<>>
    ELSE IF Len(p) = 1 THEN p[1]
    ELSE p[1] \o Slash \o PathString(Tail(p))

\* the relative path in the metadata block of the container at path
StoredRelativePath(path) ==
    Deref(ReadHeaderWithMetadata(files[path]).metadata).RelativePath

\* C21: the metadata stored in a container written by EncryptDirectory records,
\* as its relative path, the entry's path relative to the input root (sub/c.txt
\* for a nested file), not merely its base name.
C21_MetadataHoldsRelativePath ==
    (job.pc # "idle" /\ job.op = "encrypt" /\ job.tampered = {}) =>
        \A i \in DOMAIN job.attempted :
            job.attempted[i].err = "" =>
                StoredRelativePath(job.attempted[i].out) =
                    PathString(job.attempted[i].rel)

(***************************************************************************)
(* Claims about the wiping of derived keys.                                *)
(***************************************************************************)
\* a key buffer that holds zeros only
Zeroed(key) == \A i \in DOMAIN key : key[i] = 0

\* C22: in every function of the CLI that derives a key (runEncrypt,
\* decryptFile, the per-file step of decryptDirectory, runRotateKey for the old
\* and the new key) the derived key holds zeros when the function has
\* returned, on the success path and on every error path after the derivation.
C22_DerivedKeysZeroized ==
    /\ rot.pc = "done" => (Zeroed(rot.oldKey) /\ Zeroed(rot.newKey))
    /\ (job.pc = "done" /\ job.key # Nil) => Zeroed(Deref(job.key))

\* C22 witness: a rotation that derived both keys has failed after the second
\* derivation, and a command that derived a key has failed after the derivation
C22_Witness ==
    /\ rot.pc = "done" /\ rot.err # ""
    /\ Len(rot.oldKey) = KeyLength /\ Len(rot.newKey) = KeyLength
    /\ job.pc = "done" /\ job.err # ""
    /\ job.key # Nil /\ Len(Deref(job.key)) = KeyLength

(***************************************************************************)
(* Claims about compression.                                               *)
(***************************************************************************)
\* data begins with the bytes 0x1F 0x8B
BeginsLikeGzip(data) == Len(data) >= 2 /\ data[1] = 31 /\ data[2] = 139

\* the payload under the ciphertext of the container at "enc/a.txt.nokvault"
EncryptedPayload ==
    DecryptData(ReadFromOffset(files[FileEnc],
                               Deref(ReadHeader(files[FileEnc]).header).DataOffset),
                DirKey).plaintext

C24_TreeEventsReachDirCallback ==
    \A i \in DOMAIN fw.handled :
        LET e == fw.handled[i]
        IN  (/\ InDir \in fw.watched
             /\ e.name \in DOMAIN files
             /\ HasPrefix(e.name, InDir)
             /\ e.registered[InDir] > 0)
            => e.invoked[InDir] = e.registered[InDir]

(***************************************************************************)
(* Claims about the KeyCache called by one goroutine.  kc.stored[id] is    *)
(* the last Set(id, ..) that no Clear followed, with the time of the Set.  *)
(***************************************************************************)
\* the last Get of the caller has returned
GetReturned ==
    /\ kc.th[Caller].pc = "idle" /\ kc.th[Caller].op = "get"
    /\ kc.th[Caller].ret # Nil

\* C25: after Set(id, k) at time t, Get(id) returns (k, true) at every time
\* not after t + ttl unless a Clear or a later Set(id, ..) intervened; a
\* Get(id) after t + ttl returns a miss and removes the entry, and so does
\* every Get(id) until the next Set(id, ..); after Clear every Get is a miss.
C25_GetHitsUntilExpiry ==
    GetReturned =>
        LET ret == Deref(kc.th[Caller].ret)
            set == kc.stored[kc.th[Caller].id]
        IN  /\ ret.ok <=> (set # Nil /\ ret.at <= Deref(set).at + TTL)
            /\ ret.ok => ret.gen = Deref(set).gen
            /\ ~ret.ok => kc.cache[kc.th[Caller].id] = Nil

\* C25 witness: a Get at exactly t + ttl has returned the key
C25_Witness ==
    /\ GetReturned
    /\ Deref(kc.th[Caller].ret).ok
    /\ Deref(kc.th[Caller].ret).at
          = Deref(kc.stored[kc.th[Caller].id]).at + TTL

(***************************************************************************)
(* Claims about the shutdown of the watch command.                         *)
(***************************************************************************)
\* the container at path opens under key
OpensUnder(path, key) ==
    LET h == ReadHeader(files[path])
    IN  /\ h.err = ""
        /\ DecryptData(ReadFromOffset(files[path], Deref(h.header).DataOffset),
                       key).err = ""

\* C26: no auto-encryption runs with a key that runWatch has wiped or is
\* wiping: every container the watch command wrote opens under the derived key,
\* none is encrypted under the all-zero key.
C26_NoEncryptionUnderWipedKey ==
    \A path \in DOMAIN files :
        Ext(Base(path)) = NokvaultExt =>
            /\ OpensUnder(path, DirKey)
            /\ ~OpensUnder(path, ZeroizeKey(DirKey))

(***************************************************************************)
(* Claims about the events of the containers auto-encryption writes.       *)
(***************************************************************************)
\* the encryptions the callback has scheduled or is about to schedule
Scheduled == Len(pend.timers) + (IF pend.cb.pc = "schedule" THEN 1 ELSE 0)

\* C30: auto-encryption never feeds on its own output: the events of the
\* containers it writes into the watched directory schedule no encryption, no
\* .nokvault file is encrypted again, and the encryptions scheduled are no more
\* than the events of the user's writes.
C30_NoSelfFeeding ==
    /\ \A id \in DOMAIN pend.timers : ~IsContainerName(pend.timers[id].path)
    /\ pend.cb.pc = "schedule" => ~IsContainerName(pend.cb.path)
    /\ \A path \in DOMAIN files :
          IsContainerName(path) => ~IsContainerName(CutExt(path, NokvaultExt))
    /\ Scheduled <= pend.events

\* C30 witness: the callback has been called for the event of a container
\* that auto-encryption wrote, and has returned
C30_Witness ==
    /\ FileInEnc \in pend.seen
    /\ FileInEnc \in DOMAIN files
    /\ pend.cb.pc = "idle"

(***************************************************************************)
(* Claims about restarting a FileWatcher.                                  *)
(***************************************************************************)
\* C27: for every sequence of Start and Stop calls on one FileWatcher, Start,
\* Stop, Start, Stop included, the done channel is closed at most once, so
\* Stop never panics, and whenever the watcher reports running a watch loop
\* is consuming events.
C27_RestartableWatcher ==
    /\ fw.pc # "crashed"
    /\ fw.running => /\ fw.loops > 0
                     /\ ~fw.doneClosed
                     /\ ~fw.watcherClosed

(***************************************************************************)
(* Claims about the temporary file of key rotation.                        *)
(***************************************************************************)
\* C29: after key rotation has returned, with success or with an error at any
\* step, no temporary file (path + ".tmp") remains beside the container.
C29_NoTempFileLeftBehind ==
    rot.pc = "done" => tempPath(RotPath) \notin DOMAIN files

(***************************************************************************)
(* Claims about the progress callback of the directory operations.         *)
(***************************************************************************)
\* C28: in every progress callback invocation made by EncryptDirectory or
\* DecryptDirectory, 1 <= current <= total, also when the output directory
\* lies inside the input directory, so that the walk visits containers that
\* were written after the count was taken.
C28_ProgressWithinTotal ==
    job.pc # "idle" =>
        \A i \in DOMAIN job.progress :
            /\ 1 <= job.progress[i].current
            /\ job.progress[i].current <= job.progress[i].total

====
